---- MODULE Spec2Model ----
(***************************************************************************)
(* A model of the three-stage paper pipeline:                              *)
(*   1_extract_paper_data.py   PDF -> flat text record                     *)
(*   2_analyze_with_claude.py  record -> record + CLAUDE ANALYSIS section  *)
(*   3_create_markdown.py      record -> markdown note                     *)
(* Text is modelled character by character: a Python str is a sequence of  *)
(* one-character strings, and every regular expression of the source is    *)
(* an operator that scans such a sequence the way `re` does.               *)
(***************************************************************************)
EXTENDS Integers, Sequences, FiniteSets, TLC

(***************************************************************************)
(* Bounds of the model.                                                    *)
(***************************************************************************)
MaxKeywords == 2

MaxAppends == 2

MaxFiles == 2

VARIABLES
  pc,                 \* the position of the running script
  keywords,           \* ensure_keywords_in_singular: its argument
  singular_keywords,  \* ensure_keywords_in_singular: the list it returns
  pdf_path,           \* normalize_filename: its argument
  base_name,          \* normalize_filename: the name it returns
  paper,              \* what process_pdf_with_zotero extracted and returns
  txt,                \* the record file <base_name>.txt
  appended,           \* the analysis results append_analysis_to_file was called with
  content,            \* stage 3: the text of the record file as it was read
  data,               \* stage 3: the dictionary extract_data_from_file returned
  md,                 \* the markdown file <base_name>.md
  document,           \* stage 1: what fitz.open(pdf_path) finds at the path
  pdf_title,          \* extract_title_authors_from_pdf: the title it returns
  pdf_authors,        \* extract_title_authors_from_pdf: the authors it returns
  pdf_year,           \* extract_year: the year it returns
  txt_files,          \* process_text_files: the *.txt files of the folder
  original_files,     \* the same files as they were when the run began
  overwrite,          \* process_text_files: its overwrite argument
  file_index,         \* process_text_files: the files the loop is done with
  success_count,      \* process_text_files: success_count
  skipped_count,      \* process_text_files: skipped_count
  outcomes,           \* process_text_files: how each iteration of the loop ended
  events,             \* process_text_files: the LLM calls and the sleeps, in order
  md_files,           \* stage 3: the markdown file of each text file, by position
  exit_code,          \* stage 3: what sys.exit was called with, <<>> before it
  pdf_files,          \* process_pdf_folder: the *.pdf files of the folder
  record_files        \* process_pdf_folder: the output folder, file name -> text

vars == <<pc, keywords, singular_keywords, pdf_path, base_name,
          paper, txt, appended, content, data, md,
          document, pdf_title, pdf_authors, pdf_year,
          txt_files, original_files, overwrite, file_index,
          success_count, skipped_count, outcomes, events,
          md_files, exit_code, pdf_files, record_files>>

folderVars == <<md_files, exit_code, pdf_files, record_files>>

pdfVars == <<document, pdf_title, pdf_authors, pdf_year>>

batchVars == <<txt_files, original_files, overwrite, file_index,
               success_count, skipped_count, outcomes, events>>

pipeVars == <<paper, txt, appended, content, data, md>>

kwVars == <<keywords, singular_keywords>>

nameVars == <<pdf_path, base_name>>

(***************************************************************************)
(* The values of the variables of a part of the pipeline that does not run *)
(***************************************************************************)
IdleKeywords == keywords = <<>> /\ singular_keywords = <<>>

IdleFilename == pdf_path = <<>> /\ base_name = <<>>

NoFile == [exists |-> FALSE, text |-> <<>>]

NoPaper ==
  [title |-> <<>>, authors |-> <<>>, year |-> <<>>, abstract |-> <<>>,
   introduction |-> <<>>]

NoData ==
  [title |-> <<>>, authors |-> <<>>, year |-> <<>>, abstract |-> <<>>,
   introduction |-> <<>>, summary |-> <<>>, gap |-> <<>>, objectives |-> <<>>,
   keywords |-> <<>>]

NoMarkdown ==
  [exists |-> FALSE,
   frontmatter |-> [title |-> <<>>, author |-> <<>>, year |-> <<>>, tags |-> <<>>],
   body |-> <<>>]

IdlePipeline ==
  /\ paper = NoPaper
  /\ txt = NoFile
  /\ appended = <<>>
  /\ content = <<>>
  /\ data = NoData
  /\ md = NoMarkdown

NoDocument == [kind |-> "none"]

IdlePdf ==
  /\ document = NoDocument
  /\ pdf_title = <<>>
  /\ pdf_authors = <<>>
  /\ pdf_year = <<>>

IdleBatch ==
  /\ txt_files = <<>>
  /\ original_files = <<>>
  /\ overwrite = FALSE
  /\ file_index = 0
  /\ success_count = 0
  /\ skipped_count = 0
  /\ outcomes = <<>>
  /\ events = <<>>

\* no file name is in the output folder
NoRecordFiles == [name \in {} |-> <<>>]

IdleFolders ==
  /\ md_files = <<>>
  /\ exit_code = <<>>
  /\ pdf_files = <<>>
  /\ record_files = NoRecordFiles

\* the parts that run in none of the stage specifications below
IdleRest == IdlePdf /\ IdleBatch /\ IdleFolders

restVars == <<pdfVars, batchVars, folderVars>>

\* the sequences over S of length at most n
SeqsUpTo(S, n) == UNION {[1..k -> S] : k \in 0..n}

(***************************************************************************)
(* Character classes of Python's re and str                                *)
(***************************************************************************)
Upper == {"A","B","C","D","E","F","G","H","I","J","K","L","M",
          "N","O","P","Q","R","S","T","U","V","W","X","Y","Z"}

Lower == {"a","b","c","d","e","f","g","h","i","j","k","l","m",
          "n","o","p","q","r","s","t","u","v","w","x","y","z"}

Digit == {"0","1","2","3","4","5","6","7","8","9"}

\* \s of re, and the characters str.strip() removes
Whitespace == {" ", "\n", "\t"}

\* \w of re
WordChar == Upper \cup Lower \cup Digit \cup {"_"}

(***************************************************************************)
(* str operations                                                          *)
(***************************************************************************)
Min(S) == CHOOSE x \in S : \A y \in S : x <= y

Max(S) == CHOOSE x \in S : \A y \in S : x >= y

\* s[i:i+len(lit)] == lit, positions counted from 1
StartsAt(s, i, lit) ==
  /\ i >= 1
  /\ i + Len(lit) - 1 <= Len(s)
  /\ \A k \in 1..Len(lit) : s[i + k - 1] = lit[k]

\* s.find(lit, i - 1) + 1: the first position >= i at which lit occurs in s, 0 when
\* there is none
find(s, lit, i) ==
  LET places == {k \in i..(Len(s) - Len(lit) + 1) : StartsAt(s, k, lit)}
  IN  IF places = {} THEN 0 ELSE Min(places)

\* lit in s
Contains(s, lit) == find(s, lit, 1) # 0

\* s.startswith(lit)
startswith(s, lit) == StartsAt(s, 1, lit)

\* s.endswith(suffix)
endswith(s, suffix) ==
  /\ Len(suffix) <= Len(s)
  /\ StartsAt(s, Len(s) - Len(suffix) + 1, suffix)

\* s[:-n] for 0 < n <= len(s)
DropLast(s, n) == SubSeq(s, 1, Len(s) - n)

\* s.split('\n')
RECURSIVE SplitLines(_)
SplitLines(s) ==
  LET i == find(s, <<"\n">>, 1)
  IN  IF i = 0 THEN <<s>>
      ELSE <<SubSeq(s, 1, i - 1)>> \o SplitLines(SubSeq(s, i + 1, Len(s)))

UpperSeq == <<"A","B","C","D","E","F","G","H","I","J","K","L","M",
              "N","O","P","Q","R","S","T","U","V","W","X","Y","Z">>

LowerSeq == <<"a","b","c","d","e","f","g","h","i","j","k","l","m",
              "n","o","p","q","r","s","t","u","v","w","x","y","z">>

\* s.lower()
lower(s) ==
  [i \in 1..Len(s) |->
     IF s[i] \in Upper THEN LowerSeq[CHOOSE k \in 1..26 : UpperSeq[k] = s[i]] ELSE s[i]]

\* the first position >= i that holds no whitespace (len(s)+1 when none): where a
\* greedy \s* started at i stops
SkipWhitespace(s, i) ==
  LET stops == {k \in i..Len(s) : s[k] \notin Whitespace}
  IN  IF i > Len(s) THEN i ELSE IF stops = {} THEN Len(s) + 1 ELSE Min(stops)

\* the last position <= i that holds no whitespace (0 when none)
SkipWhitespaceBack(s, i) ==
  LET stops == {k \in 1..i : s[k] \notin Whitespace}
  IN  IF stops = {} THEN 0 ELSE Max(stops)

\* s.strip()
strip(s) == SubSeq(s, SkipWhitespace(s, 1), SkipWhitespaceBack(s, Len(s)))

(***************************************************************************)
(* 3_create_markdown.py: ensure_keywords_in_singular                       *)
(***************************************************************************)
ies == <<"i","e","s">>

es == <<"e","s">>

series == <<"s","e","r","i","e","s">>

species == <<"s","p","e","c","i","e","s">>

\* the if/elif chain of the loop body: the singular of one keyword
singularize(keyword) ==
  IF endswith(keyword, ies) /\ ~endswith(keyword, series)
    THEN DropLast(keyword, 3) \o <<"y">>
  ELSE IF endswith(keyword, es)
          /\ ~(endswith(keyword, species) \/ endswith(keyword, series))
    THEN DropLast(keyword, 2)
  ELSE IF endswith(keyword, <<"s">>)
          /\ ~(\/ endswith(keyword, <<"s","s">>) \/ endswith(keyword, <<"i","s">>)
               \/ endswith(keyword, <<"u","s">>) \/ endswith(keyword, <<"o","s">>))
    THEN DropLast(keyword, 1)
  ELSE keyword

\* a mutant of ensure_keywords_in_singular: empty singulars are kept
RECURSIVE ensure_keywords_keep_empty(_)
ensure_keywords_keep_empty(kws) ==
  IF kws = <<>> THEN <<>>
  ELSE <<singularize(Head(kws))>> \o ensure_keywords_keep_empty(Tail(kws))

\* the for loop: singular_keywords.append(singular) for every non-empty singular
RECURSIVE ensure_keywords_in_singular(_)
ensure_keywords_in_singular(kws) ==
  IF kws = <<>> THEN <<>>
  ELSE LET singular == singularize(Head(kws))
       IN  (IF singular # <<>> THEN <<singular>> ELSE <<>>)
             \o ensure_keywords_in_singular(Tail(kws))

\* the keywords the calls are made with: every branch and every exclusion of the
\* chain is taken by one of them
KeywordSamples == {
  <<"b","i","o","m","a","r","k","e","r","s">>,                     \* biomarkers
  <<"s","p","e","c","i","e","s">>,                                 \* species
  <<"a","n","a","l","y","s","e","s">>,                             \* analyses
  <<"g","e","n","e","s">>,                                         \* genes
  <<"P","r","o","t","e","i","n","_","L","e","v","e","l","s">>,     \* Protein_Levels
  <<"s","e","r","i","e","s">>,                                     \* series
  <<"s","t","u","d","i","e","s">>,                                 \* studies
  <<"e","s">>, <<"s">>, <<"i","e","s">>, <<>>,
  <<"c","l","a","s","s">>,                                         \* class
  <<"a","n","a","l","y","s","i","s">>,                             \* analysis
  <<"v","i","r","u","s">>,                                         \* virus
  <<"c","h","a","o","s">>,                                         \* chaos
  <<"g","e","n","e">> }                                            \* gene

InitKeywords ==
  /\ pc = "keywords_given"
  /\ keywords \in SeqsUpTo(KeywordSamples, MaxKeywords)
  /\ singular_keywords = <<>>
  /\ IdleFilename
  /\ IdlePipeline
  /\ IdleRest

\* keywords = ensure_keywords_in_singular(data["keywords"])
CallEnsureSingular ==
  /\ pc = "keywords_given"
  /\ singular_keywords' = ensure_keywords_in_singular(keywords)
  /\ pc' = "keywords_returned"
  /\ UNCHANGED <<keywords, nameVars, pipeVars, restVars>>

NextKeywords == CallEnsureSingular

SpecKeywords == InitKeywords /\ [][NextKeywords]_vars

(***************************************************************************)
(* 1_extract_paper_data.py: normalize_filename                             *)
(***************************************************************************)
\* os.path.basename(path): what follows the last "/"
basename(path) ==
  LET seps == {i \in 1..Len(path) : path[i] = "/"}
  IN  IF seps = {} THEN path ELSE SubSeq(path, Max(seps) + 1, Len(path))

\* os.path.splitext(name)[0] of a name without "/": the name up to its last ".",
\* unless only "." come before that one
splitext_root(name) ==
  LET dots == {i \in 1..Len(name) : name[i] = "."}
  IN  IF dots = {} THEN name
      ELSE IF \E q \in 1..(Max(dots) - 1) : name[q] # "." THEN SubSeq(name, 1, Max(dots) - 1)
      ELSE name

\* str.replace(old, new) for a one-character old; new is a str
RECURSIVE replace(_, _, _)
replace(s, old, new) ==
  IF s = <<>> THEN <<>>
  ELSE (IF Head(s) = old THEN new ELSE <<Head(s)>>) \o replace(Tail(s), old, new)

IsWordChar(c) == c \in WordChar

\* re.sub(r'[^\w_]', '', s)
remove_non_word(s) == SelectSeq(s, IsWordChar)

\* "." matches any character but the newline: s[a..b] holds none
NoNewline(s, a, b) == \A q \in a..b : s[q] # "\n"

\* \d{4} at position p
FourDigitsAt(s, p) == p >= 1 /\ p + 3 <= Len(s) /\ \A q \in p..(p + 3) : s[q] \in Digit

CharAt(s, p, c) == p >= 1 /\ p <= Len(s) /\ s[p] = c

CharIn(s, p, C) == p >= 1 /\ p <= Len(s) /\ s[p] \in C

\* re.match(r'(.*?)\s*-\s*(\d{4})\s*-\s*(.*)', s): the lengths of group 1 for which
\* the rest of the pattern matches; the lazy group takes the least. A greedy \s*
\* followed by a character that is no whitespace takes the whole run of whitespace.
Pattern1Lengths(s) ==
  {g \in 0..Len(s) :
     /\ NoNewline(s, 1, g)
     /\ CharAt(s, SkipWhitespace(s, g + 1), "-")
     /\ FourDigitsAt(s, SkipWhitespace(s, SkipWhitespace(s, g + 1) + 1))
     /\ CharAt(s, SkipWhitespace(s, SkipWhitespace(s, SkipWhitespace(s, g + 1) + 1) + 4), "-")}

\* re.match(r'(.*?)_(\d{4})_(.*)', s): the lengths of group 1
Pattern2Lengths(s) ==
  {g \in 0..Len(s) :
     /\ NoNewline(s, 1, g)
     /\ CharAt(s, g + 1, "_")
     /\ FourDigitsAt(s, g + 2)
     /\ CharAt(s, g + 6, "_")}

\* re.search(r'(.*?)(?:\s|_)(\d{4})(?:\s|_)', s) started at position st: the
\* lengths of group 1
Pattern3Lengths(s, st) ==
  {g \in 0..(Len(s) - st + 1) :
     /\ NoNewline(s, st, st + g - 1)
     /\ CharIn(s, st + g, Whitespace \cup {"_"})
     /\ FourDigitsAt(s, st + g + 1)
     /\ CharIn(s, st + g + 5, Whitespace \cup {"_"})}

\* the start positions from which pattern 3 matches; re.search takes the least
Pattern3Starts(s) == {st \in 1..(Len(s) + 1) : Pattern3Lengths(s, st) # {}}

\* lines 134-142
pattern1_result(base) ==
  LET g      == Min(Pattern1Lengths(base))
      y      == SkipWhitespace(base, SkipWhitespace(base, g + 1) + 1)
      year   == SubSeq(base, y, y + 3)
      author == replace(strip(SubSeq(base, 1, g)), ".", <<>>)
  IN  remove_non_word(replace(author, " ", <<"_">>)) \o <<"_">> \o year

\* lines 146-152
pattern2_result(base) ==
  LET g      == Min(Pattern2Lengths(base))
      year   == SubSeq(base, g + 2, g + 5)
      author == SubSeq(base, 1, g)
  IN  remove_non_word(replace(author, " ", <<"_">>)) \o <<"_">> \o year

\* lines 156-164
pattern3_result(base) ==
  LET st     == Min(Pattern3Starts(base))
      g      == Min(Pattern3Lengths(base, st))
      year   == SubSeq(base, st + g + 1, st + g + 4)
      author == strip(replace(SubSeq(base, st, st + g - 1), ".", <<>>))
  IN  remove_non_word(replace(author, " ", <<"_">>)) \o <<"_">> \o year

\* re.sub(r'_+', '_', s)
RECURSIVE collapse_underscores(_)
collapse_underscores(s) ==
  IF Len(s) < 2 THEN s
  ELSE IF s[1] = "_" /\ s[2] = "_" THEN collapse_underscores(Tail(s))
  ELSE <<Head(s)>> \o collapse_underscores(Tail(s))

\* lines 167-170: re.sub(r'[^\w]', '_', base), then the runs of "_" collapsed
fallback_result(base) ==
  collapse_underscores([i \in 1..Len(base) |->
                          IF base[i] \in WordChar THEN base[i] ELSE "_"])

\* a mutant of normalize_filename: the underscore pattern is tried before the dash
\* pattern
normalize_filename_underscore_first(path) ==
  LET base == splitext_root(basename(path))
  IN  IF Pattern2Lengths(base) # {} THEN pattern2_result(base)
      ELSE IF Pattern1Lengths(base) # {} THEN pattern1_result(base)
      ELSE IF Pattern3Starts(base) # {} THEN pattern3_result(base)
      ELSE fallback_result(base)

normalize_filename(path) ==
  LET base == splitext_root(basename(path))
  IN  IF Pattern1Lengths(base) # {} THEN pattern1_result(base)
      ELSE IF Pattern2Lengths(base) # {} THEN pattern2_result(base)
      ELSE IF Pattern3Starts(base) # {} THEN pattern3_result(base)
      ELSE fallback_result(base)

(***************************************************************************)
(* The file names normalize_filename is called with: names put together as *)
(* author, separator, year, separator, title and ".pdf" (process_pdf_folder *)
(* globs "*.pdf"), and names of the other shapes.                          *)
(***************************************************************************)
\* Smith et al. | A_1999_B | O'Neil | ' Lee' | Smith-Jones | a 2020 b | '' | x.y z
AuthorSamples == {
  <<"S","m","i","t","h"," ","e","t"," ","a","l",".">>,
  <<"A","_","1","9","9","9","_","B">>,
  <<"O","'","N","e","i","l">>,
  <<" ","L","e","e">>,
  <<"S","m","i","t","h","-","J","o","n","e","s">>,
  <<"a"," ","2","0","2","0"," ","b">>,
  <<>>,
  <<"x",".","y"," ","z">> }

\* 2020 | 1999
YearSamples == {
  <<"2","0","2","0">>,
  <<"1","9","9","9">> }

\* ' - ' | '-' | two spaces, '-' and a tab
SeparatorSamples == {
  <<" ","-"," ">>,
  <<"-">>,
  <<" "," ","-","\t">> }

\* Title | '' | A - 1234 - B | T_2000_x
TitleSamples == {
  <<"T","i","t","l","e">>,
  <<>>,
  <<"A"," ","-"," ","1","2","3","4"," ","-"," ","B">>,
  <<"T","_","2","0","0","0","_","x">> }

\* '/d/' | ''
FolderSamples == {
  <<"/","d","/">>,
  <<>> }

dot_pdf == <<".","p","d","f">>

\* /d/x_2020_y.pdf | /d/a 2020 b.pdf | /d/plain.pdf | /d/Smith (2020) - a_b.pdf | /d/Smith - 20201 - T.pdf | /d/.pdf | /d/v1.2 - 2020 -.pdf | /d/Lee 2020.pdf
OtherPathSamples == {
  <<"/","d","/","x","_","2","0","2","0","_","y",".","p","d","f">>,
  <<"/","d","/","a"," ","2","0","2","0"," ","b",".","p","d","f">>,
  <<"/","d","/","p","l","a","i","n",".","p","d","f">>,
  <<"/","d","/","S","m","i","t","h"," ","(","2","0","2","0",")"," ","-"," ","a","_","b",".","p","d","f">>,
  <<"/","d","/","S","m","i","t","h"," ","-"," ","2","0","2","0","1"," ","-"," ","T",".","p","d","f">>,
  <<"/","d","/",".","p","d","f">>,
  <<"/","d","/","v","1",".","2"," ","-"," ","2","0","2","0"," ","-",".","p","d","f">>,
  <<"/","d","/","L","e","e"," ","2","0","2","0",".","p","d","f">> }

PathSamples ==
  {f \o a \o sp \o y \o sp \o t \o dot_pdf :
     f \in FolderSamples, a \in AuthorSamples, sp \in SeparatorSamples,
     y \in YearSamples, t \in TitleSamples}
  \cup OtherPathSamples

InitFilename ==
  /\ pc = "path_given"
  /\ pdf_path \in PathSamples
  /\ base_name = <<>>
  /\ IdleKeywords
  /\ IdlePipeline
  /\ IdleRest

\* base_name = normalize_filename(pdf_path)
CallNormalizeFilename ==
  /\ pc = "path_given"
  /\ base_name' = normalize_filename(pdf_path)
  /\ pc' = "path_returned"
  /\ UNCHANGED <<pdf_path, kwVars, pipeVars, restVars>>

NextFilename == CallNormalizeFilename

SpecFilename == InitFilename /\ [][NextFilename]_vars

(***************************************************************************)
(* The flat text record: its labels and the regular expressions that read  *)
(* it back (2_analyze_with_claude.py, 3_create_markdown.py)                *)
(***************************************************************************)
TITLE_ == <<"T","I","T","L","E",":"," ">>

AUTHORS_ == <<"A","U","T","H","O","R","S",":"," ">>

YEAR_ == <<"Y","E","A","R",":"," ">>

ABSTRACT_ == <<"A","B","S","T","R","A","C","T",":">>

INTRODUCTION_ == <<"I","N","T","R","O","D","U","C","T","I","O","N",":">>

CLAUDE_ANALYSIS_ == <<"C","L","A","U","D","E"," ","A","N","A","L","Y","S","I","S",":">>

SUMMARY_ == <<"S","U","M","M","A","R","Y",":">>

RESEARCH_GAP_ == <<"R","E","S","E","A","R","C","H"," ","G","A","P","/","P","R","O","B","L","E","M",":">>

OBJECTIVES_ == <<"O","B","J","E","C","T","I","V","E","S",":">>

KEYWORDS_ == <<"K","E","Y","W","O","R","D","S",":">>

UnknownTitle == <<"U","n","k","n","o","w","n"," ","T","i","t","l","e">>

UnknownAuthors == <<"U","n","k","n","o","w","n"," ","A","u","t","h","o","r","s">>

UnknownAuthor == <<"U","n","k","n","o","w","n"," ","A","u","t","h","o","r">>

UnknownYear == <<"U","n","k","n","o","w","n"," ","Y","e","a","r">>

IntroductionFailed == <<"I","n","t","r","o","d","u","c","t","i","o","n"," ","e","x","t","r","a","c","t","i","o","n"," ","f","a","i","l","e","d",".">>

NL == <<"\n">>

\* the lookahead (?=\n\n[A-Z]+:|\Z) at position p: a blank line and a label of
\* upper-case letters only, or the end of the text
SectionEndAt(s, p) ==
  \/ p = Len(s) + 1
  \/ /\ CharAt(s, p, "\n")
     /\ CharAt(s, p + 1, "\n")
     /\ \E m \in (p + 3)..Len(s) : s[m] = ":" /\ \A q \in (p + 2)..(m - 1) : s[q] \in Upper

\* re.search(label + r'\s*(.*?)(?=\n\n[A-Z]+:|\Z)', s, re.DOTALL): whether it
\* matches, and its group 1. The search takes the leftmost label; the greedy \s*
\* takes the whitespace after it; the lazy group ends at the first section end.
section_search(s, label) ==
  IF ~Contains(s, label) THEN [matched |-> FALSE, group |-> <<>>]
  ELSE LET i == find(s, label, 1)
           k == SkipWhitespace(s, i + Len(label))
           j == Min({p \in k..(Len(s) + 1) : SectionEndAt(s, p)})
       IN  [matched |-> TRUE, group |-> SubSeq(s, k, j - 1)]

\* m.group(1).strip() if m else ""
section_value(s, label) == strip(section_search(s, label).group)

\* re.search(label + r'(.*?)$', s, re.MULTILINE): the leftmost label, and the rest
\* of its line
line_search(s, label) ==
  IF ~Contains(s, label) THEN [matched |-> FALSE, group |-> <<>>]
  ELSE LET i == find(s, label, 1)
           k == i + Len(label)
           j == Min({p \in k..(Len(s) + 1) : p = Len(s) + 1 \/ s[p] = "\n"})
       IN  [matched |-> TRUE, group |-> SubSeq(s, k, j - 1)]

\* m.group(1) if m else default
line_value(s, label, default) ==
  IF line_search(s, label).matched THEN line_search(s, label).group ELSE default

\* re.search(r'CLAUDE ANALYSIS:\s*(.*?)$', s, re.DOTALL), stripped: without
\* MULTILINE "$" is the end of the text, or the place before a last newline
claude_analysis_value(s) ==
  IF ~Contains(s, CLAUDE_ANALYSIS_) THEN <<>>
  ELSE LET i == find(s, CLAUDE_ANALYSIS_, 1)
           k == SkipWhitespace(s, i + Len(CLAUDE_ANALYSIS_))
           j == Min({p \in k..(Len(s) + 1) :
                       p = Len(s) + 1 \/ (p = Len(s) /\ s[p] = "\n")})
       IN  strip(SubSeq(s, k, j - 1))

\* str.split(','): the pieces between the commas
RECURSIVE split_commas(_)
split_commas(s) ==
  LET commas == {i \in 1..Len(s) : s[i] = ","}
  IN  IF commas = {} THEN <<s>>
      ELSE <<SubSeq(s, 1, Min(commas) - 1)>>
             \o split_commas(SubSeq(s, Min(commas) + 1, Len(s)))

\* [k.strip() for k in keywords_text.split(',')]
keyword_list(keywords_text) ==
  LET pieces == split_commas(keywords_text)
  IN  [i \in 1..Len(pieces) |-> strip(pieces[i])]

\* 2_analyze_with_claude.py, extract_content_from_file, of a file that was read
extract_content_from_file(text) ==
  [title        |-> line_value(text, TITLE_, UnknownTitle),
   abstract     |-> section_value(text, ABSTRACT_),
   introduction |-> section_value(text, INTRODUCTION_),
   content      |-> text]

\* 3_create_markdown.py, extract_data_from_file, of a file that was read
extract_data_from_file(text) ==
  LET claude_analysis == claude_analysis_value(text)
      kw_match        == section_search(claude_analysis, KEYWORDS_)
  IN  [title        |-> line_value(text, TITLE_, UnknownTitle),
       authors      |-> line_value(text, AUTHORS_, UnknownAuthors),
       year         |-> line_value(text, YEAR_, UnknownYear),
       abstract     |-> section_value(text, ABSTRACT_),
       introduction |-> section_value(text, INTRODUCTION_),
       summary      |-> IF claude_analysis # <<>>
                        THEN section_value(claude_analysis, SUMMARY_) ELSE <<>>,
       gap          |-> IF claude_analysis # <<>>
                        THEN section_value(claude_analysis, RESEARCH_GAP_) ELSE <<>>,
       objectives   |-> IF claude_analysis # <<>>
                        THEN section_value(claude_analysis, OBJECTIVES_) ELSE <<>>,
       keywords     |-> IF claude_analysis # <<>> /\ kw_match.matched
                        THEN keyword_list(strip(kw_match.group)) ELSE <<>>]

(***************************************************************************)
(* 1_extract_paper_data.py: extract_title_authors_from_pdf, extract_year   *)
(* What fitz gives for a path is a document of one of three kinds:         *)
(*   "unopenable"  fitz.open raises                                        *)
(*   "encrypted"   fitz.open returns, doc.metadata is None, doc[0] raises  *)
(*   "open"        doc.metadata is a dict whose values are str or None,    *)
(*                 doc[0] raises IndexError when there is no page          *)
(* A metadata value is [kind |-> "absent"] (no such key), [kind |-> "None"]*)
(* or [kind |-> "str", str |-> s].                                         *)
(***************************************************************************)
\* lines[:15]
AuthorScanLines == 15

\* first_page_text[:1000]
FirstPageChars == 1000

Absent == [kind |-> "absent", str |-> <<>>]

None == [kind |-> "None", str |-> <<>>]

Str(s) == [kind |-> "str", str |-> s]

untitled == <<"u","n","t","i","t","l","e","d">>

document_word == <<"d","o","c","u","m","e","n","t">>

\* the first line whose strip() is not empty, stripped; otherwise title is kept
RECURSIVE first_nonempty_line(_, _)
first_nonempty_line(lines, title) ==
  IF lines = <<>> THEN title
  ELSE IF strip(Head(lines)) # <<>> THEN strip(Head(lines))
  ELSE first_nonempty_line(Tail(lines), title)

\* \b at the gap before position p of s
WordBoundary(s, p) == CharIn(s, p - 1, WordChar) # CharIn(s, p, WordChar)

corresponding_author == <<"c","o","r","r","e","s","p","o","n","d","i","n","g"," ","a","u","t","h","o","r">>

\* re.search(r'by|authors?:|et al\.|\bcorresponding author\b', line, re.IGNORECASE)
author_line_match(line) ==
  LET l == lower(line)
  IN  \/ Contains(l, <<"b","y">>)
      \/ Contains(l, <<"a","u","t","h","o","r",":">>)
      \/ Contains(l, <<"a","u","t","h","o","r","s",":">>)
      \/ Contains(l, <<"e","t"," ","a","l",".">>)
      \/ \E p \in 1..Len(l) :
           /\ StartsAt(l, p, corresponding_author)
           /\ WordBoundary(l, p)
           /\ WordBoundary(l, p + Len(corresponding_author))

\* re.sub(r'^\s*(by|authors?:|corresponding author:?)\s*', '', a, flags=re.IGNORECASE)
\* of an a that was stripped: the first alternative that matches at the start
\* is removed, with the whitespace after it
strip_author_prefix(a) ==
  LET l == lower(a)
      n == IF startswith(l, <<"b","y">>) THEN 2
           ELSE IF startswith(l, <<"a","u","t","h","o","r","s",":">>) THEN 8
           ELSE IF startswith(l, <<"a","u","t","h","o","r",":">>) THEN 7
           ELSE IF startswith(l, <<"c","o","r","r","e","s","p","o","n","d","i","n","g"," ","a","u","t","h","o","r",":">>) THEN 21
           ELSE IF startswith(l, corresponding_author) THEN 20
           ELSE 0
  IN  IF n = 0 THEN a ELSE SubSeq(a, SkipWhitespace(a, n + 1), Len(a))

\* lines 78-85: the first of the lines that matches gives the authors
RECURSIVE author_from_lines(_, _)
author_from_lines(lines, authors) ==
  IF lines = <<>> THEN authors
  ELSE IF author_line_match(Head(lines)) THEN strip_author_prefix(strip(Head(lines)))
  ELSE author_from_lines(Tail(lines), authors)

Raised == [raised |-> TRUE, title |-> <<>>, authors |-> <<>>]

\* lines 57-87, the body of the try: the pair returned, or raised when a statement
\* of the body raises
title_authors_try(doc) ==
  IF doc.kind = "unopenable" THEN Raised                   \* fitz.open(pdf_path)
  ELSE IF doc.kind = "encrypted" THEN Raised               \* None.get
  ELSE IF doc.metadata.title.kind = "None" THEN Raised     \* None.strip()
  ELSE IF doc.metadata.author.kind = "None" THEN Raised
  ELSE
    LET title0      == strip(doc.metadata.title.str)
        authors0    == strip(doc.metadata.author.str)
        title_wanted   == title0 = <<>> \/ lower(title0) \in {untitled, document_word, <<>>}
        authors_wanted == authors0 = <<>> \/ authors0 \in {UnknownAuthor, <<>>}
    IN  IF (title_wanted \/ authors_wanted) /\ doc.pages = <<>> THEN Raised   \* doc[0]
        ELSE
          LET lines == SplitLines(doc.pages[1])
          IN  [raised  |-> FALSE,
               title   |-> IF title_wanted THEN first_nonempty_line(lines, title0)
                           ELSE title0,
               authors |-> IF authors_wanted
                           THEN author_from_lines(
                                  SubSeq(lines, 1, Min({AuthorScanLines, Len(lines)})),
                                  authors0)
                           ELSE authors0]

\* a mutant of extract_title_authors_from_pdf: without the except clause
extract_title_authors_no_except(doc) == title_authors_try(doc)

\* lines 56-90: try ... except Exception: return "Unknown Title", "Unknown Author"
extract_title_authors_from_pdf(doc) ==
  IF title_authors_try(doc).raised
  THEN [raised |-> FALSE, title |-> UnknownTitle, authors |-> UnknownAuthor]
  ELSE title_authors_try(doc)

\* re.search(r'(\d{4})', s): the places where four digits stand
FourDigitPlaces(s) == {p \in 1..Len(s) : FourDigitsAt(s, p)}

\* re.search(r'D:(\d{4})', s): the places of the four digits
DatePlaces(s) == {p \in 3..Len(s) : StartsAt(s, p - 2, <<"D", ":">>) /\ FourDigitsAt(s, p)}

\* re.search(r'\b(19|20)\d{2}\b', s): the places of the matches
YearTokenPlaces(s) ==
  {p \in 1..Len(s) :
     /\ FourDigitsAt(s, p)
     /\ StartsAt(s, p, <<"1", "9">>) \/ StartsAt(s, p, <<"2", "0">>)
     /\ WordBoundary(s, p)
     /\ WordBoundary(s, p + 4)}

\* "field in metadata and metadata[field]" and the date pattern is found in it
HasDate(value) == value.kind = "str" /\ DatePlaces(value.str) # {}

DateYear(value) == SubSeq(value.str, Min(DatePlaces(value.str)), Min(DatePlaces(value.str)) + 3)

NotFound == [raised |-> FALSE, found |-> FALSE, year |-> <<>>]

Found(y) == [raised |-> FALSE, found |-> TRUE, year |-> y]

\* lines 102-117, the body of the try: the year returned from inside it, none, or
\* raised
year_try(doc) ==
  IF doc.kind = "unopenable" THEN [NotFound EXCEPT !.raised = TRUE]    \* fitz.open
  ELSE IF doc.kind = "encrypted" THEN [NotFound EXCEPT !.raised = TRUE] \* field in None
  ELSE IF HasDate(doc.metadata.creationDate) THEN Found(DateYear(doc.metadata.creationDate))
  ELSE IF HasDate(doc.metadata.modDate) THEN Found(DateYear(doc.metadata.modDate))
  ELSE IF doc.pages = <<>> THEN [NotFound EXCEPT !.raised = TRUE]       \* doc[0]
  ELSE LET head == SubSeq(doc.pages[1], 1, Min({FirstPageChars, Len(doc.pages[1])}))
       IN  IF YearTokenPlaces(head) # {}
           THEN Found(SubSeq(head, Min(YearTokenPlaces(head)), Min(YearTokenPlaces(head)) + 3))
           ELSE NotFound

\* a mutant of extract_year: the metadata and the page are tried before the file name
extract_year_document_first(path, doc) ==
  LET filename == basename(path)
  IN  IF year_try(doc).found THEN year_try(doc).year
      ELSE IF FourDigitPlaces(filename) # {}
        THEN SubSeq(filename, Min(FourDigitPlaces(filename)), Min(FourDigitPlaces(filename)) + 3)
      ELSE UnknownYear

\* lines 92-120
extract_year(path, doc) ==
  LET filename == basename(path)
  IN  IF FourDigitPlaces(filename) # {}
        THEN SubSeq(filename, Min(FourDigitPlaces(filename)), Min(FourDigitPlaces(filename)) + 3)
      ELSE IF year_try(doc).found THEN year_try(doc).year
      ELSE UnknownYear

(***************************************************************************)
(* The PDF files the two extractions are called with                       *)
(***************************************************************************)
OpenDocument(m, p) == [kind |-> "open", metadata |-> m, pages |-> p]

MetaFull ==
  [title |-> Str(<<" ","M","y"," ","T","i","t","l","e"," ">>), author |-> Str(<<"A","."," ","B","a","r">>),
   creationDate |-> Str(<<"D",":","2","0","1","9","0","1","0","2">>), modDate |-> Str(<<"D",":","2","0","1","7">>)]

MetaEmpty ==
  [title |-> Str(<<>>), author |-> Str(<<>>),
   creationDate |-> Absent, modDate |-> Absent]

MetaPlaceholders ==
  [title |-> Str(<<"U","n","t","i","t","l","e","d">>), author |-> Str(<<"U","n","k","n","o","w","n"," ","A","u","t","h","o","r">>),
   creationDate |-> Str(<<>>), modDate |-> Str(<<"D",":","2","0","1","8","0","1","0","1">>)]

MetaNoneTitle ==
  [title |-> None, author |-> Str(<<"A">>),
   creationDate |-> None, modDate |-> None]

MetaNoKeys ==
  [title |-> Absent, author |-> Absent,
   creationDate |-> Str(<<"2","0","1","6","x">>), modDate |-> None]

MetaNoneAuthor ==
  [title |-> Str(<<"T">>), author |-> None,
   creationDate |-> Absent, modDate |-> Str(<<"D",":","2","0","1","5">>)]

MetaOddDate ==
  [title |-> Str(<<"D","O","C","U","M","E","N","T">>), author |-> Str(<<"Z">>),
   creationDate |-> Str(<<"x","D",":","1","2","3","4">>), modDate |-> Absent]

NoPages == <<>>

\* ''
PageBlank == << <<>> >>

\* 'A Title\nby A. Bar\n(c) 2021 x'
PageByLine == << <<"A"," ","T","i","t","l","e","\n","b","y"," ","A","."," ","B","a","r","\n","(","c",")"," ","2","0","2","1"," ","x">> >>

\* '\n  Deep Title  \nJ. Doe et al.\nReceived 1850, v20201'
PageEtAl == << <<"\n"," "," ","D","e","e","p"," ","T","i","t","l","e"," "," ","\n","J","."," ","D","o","e"," ","e","t"," ","a","l",".","\n","R","e","c","e","i","v","e","d"," ","1","8","5","0",","," ","v","2","0","2","0","1">> >>

\* 'Corresponding Author: K. Lee\nx1999 1999'
PageCorresponding == << <<"C","o","r","r","e","s","p","o","n","d","i","n","g"," ","A","u","t","h","o","r",":"," ","K","."," ","L","e","e","\n","x","1","9","9","9"," ","1","9","9","9">> >>

\* 'Byron review\nAuthors:  X, Y'
PageByron == << <<"B","y","r","o","n"," ","r","e","v","i","e","w","\n","A","u","t","h","o","r","s",":"," "," ","X",","," ","Y">> >>

\* one line more than is scanned before the author line
PageLateAuthor == << [q \in 1..AuthorScanLines |-> "\n"] \o <<"b","y"," ","Z">> >>

\* 'T\nCorresponding authors K\nthe corresponding author is X\n2000'
PageAuthorWords == << <<"T","\n","C","o","r","r","e","s","p","o","n","d","i","n","g"," ","a","u","t","h","o","r","s"," ","K","\n","t","h","e"," ","c","o","r","r","e","s","p","o","n","d","i","n","g"," ","a","u","t","h","o","r"," ","i","s"," ","X","\n","2","0","0","0">> >>

\* a year that the cut after FirstPageChars characters splits
PageYearCut == << [q \in 1..(FirstPageChars - 2) |-> " "] \o <<"2","0","2","2">> >>

\* four digits that end where the cut is, a fifth after it
PageYearAtCut == << [q \in 1..(FirstPageChars - 4) |-> " "] \o <<"2","0","2","2","7">> >>

\* /d/Smith - 2020 - T.pdf
PathWithYear == <<"/","d","/","S","m","i","t","h"," ","-"," ","2","0","2","0"," ","-"," ","T",".","p","d","f">>

\* /d/paper.pdf
PathPlain == <<"/","d","/","p","a","p","e","r",".","p","d","f">>

\* /d/v12345.pdf
PathFiveDigits == <<"/","d","/","v","1","2","3","4","5",".","p","d","f">>

\* /d1999/paper.pdf
PathYearInFolder == <<"/","d","1","9","9","9","/","p","a","p","e","r",".","p","d","f">>

MetadataSamples ==
  {MetaFull, MetaEmpty, MetaPlaceholders, MetaNoneTitle, MetaNoKeys, MetaNoneAuthor, MetaOddDate}

PagesSamples ==
  {NoPages, PageBlank, PageByLine, PageEtAl, PageCorresponding, PageByron, PageLateAuthor, PageAuthorWords, PageYearCut, PageYearAtCut}

PdfPathSamples == {PathWithYear, PathPlain, PathFiveDigits, PathYearInFolder}

DocumentSamples ==
  {[kind |-> "unopenable"], [kind |-> "encrypted"]}
    \cup {OpenDocument(m, p) : m \in MetadataSamples, p \in PagesSamples}

InitPdf ==
  /\ pc = "pdf_given"
  /\ pdf_path \in PdfPathSamples
  /\ document \in DocumentSamples
  /\ pdf_title = <<>>
  /\ pdf_authors = <<>>
  /\ pdf_year = <<>>
  /\ base_name = <<>>
  /\ IdleKeywords
  /\ IdlePipeline
  /\ IdleBatch
  /\ IdleFolders

\* title, authors = extract_title_authors_from_pdf(pdf_path); an exception that left
\* the function would end process_pdf_with_zotero
CallExtractTitleAuthors ==
  /\ pc = "pdf_given"
  /\ \E r \in {extract_title_authors_from_pdf(document)} :
       /\ pdf_title' = r.title
       /\ pdf_authors' = r.authors
       /\ pc' = IF r.raised THEN "crashed" ELSE "title_authors_returned"
  /\ UNCHANGED <<document, pdf_year, nameVars, kwVars, pipeVars, batchVars, folderVars>>

\* year = extract_year(pdf_path)
CallExtractYear ==
  /\ pc = "title_authors_returned"
  /\ pdf_year' = extract_year(pdf_path, document)
  /\ pc' = "year_returned"
  /\ UNCHANGED <<document, pdf_title, pdf_authors, nameVars, kwVars, pipeVars, batchVars,
                 folderVars>>

NextPdf == CallExtractTitleAuthors \/ CallExtractYear

SpecPdf == InitPdf /\ [][NextPdf]_vars

(***************************************************************************)
(* 1_extract_paper_data.py: the record process_pdf_with_zotero writes      *)
(***************************************************************************)
\* lines 261-266: the five f.write calls
record_text(title, authors, year, abstract, introduction_text) ==
  TITLE_ \o title \o NL
    \o AUTHORS_ \o authors \o NL
    \o YEAR_ \o year \o NL
    \o NL \o ABSTRACT_ \o NL \o abstract \o NL
    \o NL \o INTRODUCTION_ \o NL \o introduction_text \o NL

(***************************************************************************)
(* 2_analyze_with_claude.py: append_analysis_to_file                       *)
(***************************************************************************)
\* re.sub(r'\n\nCLAUDE ANALYSIS:.*$', '', s, flags=re.DOTALL): all from the
\* leftmost "\n\nCLAUDE ANALYSIS:" to the end is removed
remove_analysis(s) ==
  LET pattern == NL \o NL \o CLAUDE_ANALYSIS_
  IN  IF Contains(s, pattern) THEN SubSeq(s, 1, find(s, pattern, 1) - 1) ELSE s

\* a mutant of appended_text: the analysis already there is not removed
appended_text_keeping_old(text, analysis_result) ==
  text \o NL \o NL \o CLAUDE_ANALYSIS_ \o NL \o analysis_result

\* lines 167-179: what the file holds after the two writes, text being what it held
appended_text(text, analysis_result) ==
  (IF Contains(text, CLAUDE_ANALYSIS_) THEN remove_analysis(text) ELSE text)
    \o NL \o NL \o CLAUDE_ANALYSIS_ \o NL \o analysis_result

(***************************************************************************)
(* 3_create_markdown.py: create_markdown_file                              *)
(***************************************************************************)
\* re.sub(r'RESEARCH GAP/PROBLEM:.*?(?=\n\n[A-Z]+:|\Z)', '', s, flags=re.DOTALL):
\* every match, from the left, is removed
RECURSIVE remove_gap_sections(_)
remove_gap_sections(s) ==
  IF ~Contains(s, RESEARCH_GAP_) THEN s
  ELSE LET i == find(s, RESEARCH_GAP_, 1)
           j == Min({p \in (i + Len(RESEARCH_GAP_))..(Len(s) + 1) : SectionEndAt(s, p)})
       IN  SubSeq(s, 1, i - 1) \o remove_gap_sections(SubSeq(s, j, Len(s)))

\* lines 134-137: data["summary"] after the raw gap section is taken out of it
cleaned_summary(summary) ==
  IF summary # <<>> /\ Contains(summary, RESEARCH_GAP_)
  THEN strip(remove_gap_sections(summary))
  ELSE summary

\* re.sub(r'\s+', ' ', s)
RECURSIVE collapse_whitespace(_)
collapse_whitespace(s) ==
  IF s = <<>> THEN <<>>
  ELSE IF Head(s) \in Whitespace
    THEN (IF Len(s) >= 2 /\ s[2] \in Whitespace THEN <<>> ELSE <<" ">>)
           \o collapse_whitespace(Tail(s))
  ELSE <<Head(s)>> \o collapse_whitespace(Tail(s))

IsYamlAuthorChar(c) == c \in WordChar \cup Whitespace \cup {",", ";", ".", "-"}

\* clean_author_for_yaml
clean_author_for_yaml(author_text) ==
  strip(collapse_whitespace(SelectSeq(author_text, IsYamlAuthorChar)))

\* ', '.join(['#' + k for k in keywords])
RECURSIVE hashtag_list(_)
hashtag_list(kws) ==
  IF kws = <<>> THEN <<>>
  ELSE <<"#">> \o Head(kws)
         \o (IF Len(kws) > 1 THEN <<",", " ">> ELSE <<>>) \o hashtag_list(Tail(kws))

H1_TITLE == <<"#"," ","T","I","T","L","E">>

H1_AUTHOR == <<"#"," ","A","U","T","H","O","R">>

H1_SUMMARY == <<"#"," ","S","U","M","M","A","R","Y">>

H1_KEYWORDS == <<"#"," ","K","E","Y","W","O","R","D","S">>

H1_GAP == <<"#"," ","R","E","S","E","A","R","C","H"," ","G","A","P","/","P","R","O","B","L","E","M">>

H1_OBJECTIVES == <<"#"," ","O","B","J","E","C","T","I","V","E","S">>

H1_ABSTRACT == <<"#"," ","A","B","S","T","R","A","C","T">>

\* f"{heading}\n{body}\n\n"
md_section(heading, body) == heading \o NL \o body \o NL \o NL

\* a mutant of md_optional_section: the section is written whatever it holds
md_section_always(heading, body, present) == md_section(heading, body)

\* if <content>: md_content += f"{heading}\n{body}\n\n"
md_optional_section(heading, body, present) ==
  IF present THEN md_section(heading, body) ELSE <<>>

\* lines 131-175: the file create_markdown_file writes for the dictionary d. The
\* front matter is kept as the mapping handed to yaml.dump; body is the text after
\* the front matter block.
markdown_of(d) ==
  LET kws     == ensure_keywords_in_singular(d.keywords)
      summary == cleaned_summary(d.summary)
  IN  [frontmatter |-> [title  |-> d.title,
                        author |-> clean_author_for_yaml(d.authors),
                        year   |-> d.year,
                        tags   |-> kws],
       body |-> md_section(H1_TITLE, d.title)
                  \o md_section(H1_AUTHOR, d.authors)
                  \o md_optional_section(H1_SUMMARY, summary, summary # <<>>)
                  \o md_optional_section(H1_KEYWORDS, hashtag_list(kws), kws # <<>>)
                  \o md_optional_section(H1_GAP, d.gap, d.gap # <<>>)
                  \o md_optional_section(H1_OBJECTIVES, d.objectives, d.objectives # <<>>)
                  \o md_optional_section(H1_ABSTRACT, d.abstract, d.abstract # <<>>)]

\* the dictionary after the call: line 136-137 assign data["summary"]
data_after_markdown(d) == [d EXCEPT !.summary = cleaned_summary(d.summary)]

(***************************************************************************)
(* The pipeline on one paper: stage 1 writes the record, stage 2 appends   *)
(* analyses to it, stage 3 renders it.                                     *)
(***************************************************************************)
\* Foo | ''
PaperTitles == {<<"F","o","o">>, <<>>}

\* A. Bar | ''
PaperAuthors == {<<"A","."," ","B","a","r">>, <<>>}

\* 2023
PaperYears == {<<"2","0","2","3">>}

\* X | '' (no abstract in Zotero) | X, a blank line, '# m'
PaperAbstracts == {<<"X">>, <<>>, <<"X","\n","\n","#"," ","m">>}

\* what extract_introduction.process_file returns: Y | '' (extraction failed)
PaperIntroductions == {<<"Y">>, <<>>}

\* 'SUMMARY:\nS\n\nRESEARCH GAP/PROBLEM:\nG\n\nOBJECTIVES:\nO\n\nKEYWORDS: genes, Protein_Levels, species'
AnalysisFull ==
  <<"S","U","M","M","A","R","Y",":","\n","S","\n","\n","R","E","S","E","A","R","C","H"," ","G","A","P","/","P","R","O","B","L","E","M",":","\n","G","\n","\n","O","B","J","E","C","T","I","V","E","S",":","\n","O","\n","\n","K","E","Y","W","O","R","D","S",":"," ","g","e","n","e","s",","," ","P","r","o","t","e","i","n","_","L","e","v","e","l","s",","," ","s","p","e","c","i","e","s">>

\* 'SUMMARY:\nS\n\nOBJECTIVES:\nO\n\nKEYWORDS:\nbiomarkers, RNA'
AnalysisNoGap ==
  <<"S","U","M","M","A","R","Y",":","\n","S","\n","\n","O","B","J","E","C","T","I","V","E","S",":","\n","O","\n","\n","K","E","Y","W","O","R","D","S",":","\n","b","i","o","m","a","r","k","e","r","s",","," ","R","N","A">>

\* 'SUMMARY:\n\nRESEARCH GAP/PROBLEM:\nG\n\nOBJECTIVES:\nO\n\nKEYWORDS:\n'
AnalysisEmptySummary ==
  <<"S","U","M","M","A","R","Y",":","\n","\n","R","E","S","E","A","R","C","H"," ","G","A","P","/","P","R","O","B","L","E","M",":","\n","G","\n","\n","O","B","J","E","C","T","I","V","E","S",":","\n","O","\n","\n","K","E","Y","W","O","R","D","S",":","\n">>

\* 'SUMMARY:\nS\n\nRESEARCH GAP/PROBLEM:\n\nOBJECTIVES:\nO\n\nKEYWORDS:\ngenes'
AnalysisEmptyGap ==
  <<"S","U","M","M","A","R","Y",":","\n","S","\n","\n","R","E","S","E","A","R","C","H"," ","G","A","P","/","P","R","O","B","L","E","M",":","\n","\n","O","B","J","E","C","T","I","V","E","S",":","\n","O","\n","\n","K","E","Y","W","O","R","D","S",":","\n","g","e","n","e","s">>

\* 'No analysis.'
AnalysisUnlabelled ==
  <<"N","o"," ","a","n","a","l","y","s","i","s",".">>

\* what the LLM answers: the four sections, some of them missing or empty, or a
\* text without any label
AnalysisSamples ==
  {AnalysisFull, AnalysisNoGap, AnalysisEmptySummary, AnalysisEmptyGap, AnalysisUnlabelled}

Init ==
  /\ pc = "start"
  /\ IdlePipeline
  /\ IdleKeywords
  /\ IdleFilename
  /\ IdleRest

\* process_pdf_with_zotero, lines 224-228 and 243-278: the introduction (or the text
\* that stands for a failed extraction), the abstract, and the record written
WriteRecord ==
  /\ pc = "start"
  /\ \E title \in PaperTitles, authors \in PaperAuthors, year \in PaperYears,
        abstract \in PaperAbstracts, extracted \in PaperIntroductions :
       LET introduction_text == IF extracted = <<>> THEN IntroductionFailed ELSE extracted
       IN  /\ paper' = [title |-> title, authors |-> authors, year |-> year,
                        abstract |-> abstract, introduction |-> introduction_text]
           /\ txt' = [exists |-> TRUE,
                      text |-> record_text(title, authors, year, abstract, introduction_text)]
  /\ pc' = "stage1_done"
  /\ UNCHANGED <<appended, content, data, md, kwVars, nameVars, restVars>>

\* append_analysis_to_file(txt_path, analysis_result), the file being there
AppendAnalysis ==
  /\ txt.exists
  /\ Len(appended) < MaxAppends
  /\ \E analysis_result \in AnalysisSamples :
       /\ txt' = [txt EXCEPT !.text = appended_text(txt.text, analysis_result)]
       /\ appended' = Append(appended, analysis_result)
  /\ pc' = "stage2_done"
  /\ UNCHANGED <<paper, content, data, md, kwVars, nameVars, restVars>>

\* process_single_text_file, lines 251-265, with a record that holds an analysis:
\* the markdown file is written
CreateMarkdown ==
  /\ txt.exists
  /\ \E d \in {extract_data_from_file(txt.text)} :
       /\ ~(d.summary = <<>> /\ d.keywords = <<>>)
       /\ content' = txt.text
       /\ data' = data_after_markdown(d)
       /\ \E written \in {markdown_of(d)} :
            md' = [exists |-> TRUE, frontmatter |-> written.frontmatter,
                   body |-> written.body]
  /\ pc' = "stage3_done"
  /\ UNCHANGED <<paper, txt, appended, kwVars, nameVars, restVars>>

\* process_single_text_file, lines 251-260, with a record without summary and
\* keywords: "No Claude analysis found", nothing is written
RejectWithoutAnalysis ==
  /\ txt.exists
  /\ \E d \in {extract_data_from_file(txt.text)} :
       /\ d.summary = <<>> /\ d.keywords = <<>>
       /\ content' = txt.text
       /\ data' = d
  /\ pc' = "stage3_failed"
  /\ UNCHANGED <<paper, txt, appended, md, kwVars, nameVars, restVars>>

Next == WriteRecord \/ AppendAnalysis \/ CreateMarkdown \/ RejectWithoutAnalysis

Spec == Init /\ [][Next]_vars

(***************************************************************************)
(* 2_analyze_with_claude.py: process_text_files                            *)
(* A file of the folder is [text, readable]: open() raises for a file that *)
(* is not readable. Each iteration of the for loop is one step.            *)
(***************************************************************************)
\* the record of Foo, A. Bar, 2023, X, Y as stage 1 wrote it
RecordPlain == record_text(<<"F","o","o">>, <<"A","."," ","B","a","r">>, <<"2","0","2","3">>, <<"X">>, <<"Y">>)

\* the same record with an analysis appended by an earlier run
RecordAnalysed == appended_text(RecordPlain, AnalysisUnlabelled)

\* a *.txt file that is no record: 'notes'
NotARecord == <<"n","o","t","e","s">>

FileSamples ==
  {[text |-> RecordPlain, readable |-> TRUE],
   [text |-> RecordAnalysed, readable |-> TRUE],
   [text |-> NotARecord, readable |-> TRUE],
   [text |-> RecordPlain, readable |-> FALSE]}

\* what analyze_with_claude returns when the request fails (line 162)
ApiError == <<"E","R","R","O","R",":"," ","C","l","a","u","d","e"," ","A","P","I"," ","r","e","q","u","e","s","t"," ","f","a","i","l","e","d"," ","-"," ","t","i","m","e","o","u","t">>

ERROR_ == <<"E","R","R","O","R",":">>

\* what analyze_with_claude returns: the text of the answer, or the error text
AnalysisResults == {AnalysisNoGap, AnalysisUnlabelled, ApiError}

\* a mutant of has_claude_analysis: the marker is not looked for
has_claude_analysis_never(f) == FALSE

\* has_claude_analysis: False when the file cannot be read
has_claude_analysis(f) == f.readable /\ Contains(f.text, CLAUDE_ANALYSIS_)

\* the file the iteration is at
CurrentFile == txt_files[file_index + 1]

\* lines 206-220: the iteration gets as far as the call of analyze_with_claude
ReachesAnalysis(f) ==
  /\ ~(has_claude_analysis(f) /\ ~overwrite)
  /\ f.readable
  /\ ~(/\ extract_content_from_file(f.text).abstract = <<>>
       /\ extract_content_from_file(f.text).introduction = <<>>)

\* lines 238-239: time.sleep(1) unless the file is the last one
SleepUnlessLast == IF file_index < Len(txt_files) - 1 THEN <<"sleep">> ELSE <<>>

\* what append_analysis_to_file leaves in the file when it raises: nothing is
\* changed when the read or the open for writing fails; when one of the three
\* writes fails the file was truncated by the open and holds what was written
\* before
FailedAppendTexts(text) ==
  LET kept == IF Contains(text, CLAUDE_ANALYSIS_) THEN remove_analysis(text) ELSE text
  IN  {text, <<>>, kept, kept \o NL \o NL \o CLAUDE_ANALYSIS_ \o NL}

InitBatch ==
  /\ pc = "batch_start"
  /\ txt_files \in SeqsUpTo(FileSamples, MaxFiles)
  /\ original_files = txt_files
  /\ overwrite \in BOOLEAN
  /\ file_index = 0
  /\ success_count = 0
  /\ skipped_count = 0
  /\ outcomes = <<>>
  /\ events = <<>>
  /\ IdleKeywords
  /\ IdleFilename
  /\ IdlePipeline
  /\ IdlePdf
  /\ IdleFolders

batchFrame == <<kwVars, nameVars, pipeVars, pdfVars, folderVars, original_files, overwrite>>

\* lines 190-193: initialize_claude() gives no client, the function returns
ClientMissing ==
  /\ pc = "batch_start"
  /\ pc' = "batch_aborted"
  /\ UNCHANGED <<batchFrame, txt_files, file_index, success_count, skipped_count,
                 outcomes, events>>

\* lines 190-200: the client is there, the files are listed, the counters are 0
StartLoop ==
  /\ pc = "batch_start"
  /\ pc' = "batch_loop"
  /\ UNCHANGED <<batchFrame, txt_files, file_index, success_count, skipped_count,
                 outcomes, events>>

\* lines 206-209: the file has an analysis and overwrite is off
SkipAnalysed ==
  /\ pc = "batch_loop"
  /\ file_index < Len(txt_files)
  /\ has_claude_analysis(CurrentFile) /\ ~overwrite
  /\ skipped_count' = skipped_count + 1
  /\ outcomes' = Append(outcomes, "skipped")
  /\ file_index' = file_index + 1
  /\ UNCHANGED <<pc, batchFrame, txt_files, success_count, events>>

\* lines 212-215: extract_content_from_file returns None
ExtractFails ==
  /\ pc = "batch_loop"
  /\ file_index < Len(txt_files)
  /\ ~(has_claude_analysis(CurrentFile) /\ ~overwrite)
  /\ ~CurrentFile.readable
  /\ outcomes' = Append(outcomes, "extract_failed")
  /\ file_index' = file_index + 1
  /\ UNCHANGED <<pc, batchFrame, txt_files, success_count, skipped_count, events>>

\* lines 218-220: neither an abstract nor an introduction
NothingToAnalyse ==
  /\ pc = "batch_loop"
  /\ file_index < Len(txt_files)
  /\ ~(has_claude_analysis(CurrentFile) /\ ~overwrite)
  /\ CurrentFile.readable
  /\ ~ReachesAnalysis(CurrentFile)
  /\ outcomes' = Append(outcomes, "no_content")
  /\ file_index' = file_index + 1
  /\ UNCHANGED <<pc, batchFrame, txt_files, success_count, skipped_count, events>>

\* lines 223-232: analyze_with_claude returns an "ERROR:" text, continue
AnalysisFails ==
  /\ pc = "batch_loop"
  /\ file_index < Len(txt_files)
  /\ ReachesAnalysis(CurrentFile)
  /\ \E analysis_result \in AnalysisResults :
       startswith(analysis_result, ERROR_)
  /\ events' = Append(events, "llm")
  /\ outcomes' = Append(outcomes, "llm_failed")
  /\ file_index' = file_index + 1
  /\ UNCHANGED <<pc, batchFrame, txt_files, success_count, skipped_count>>

\* lines 223-239: the analysis is appended and counted, then the sleep
AnalysisAppended ==
  /\ pc = "batch_loop"
  /\ file_index < Len(txt_files)
  /\ ReachesAnalysis(CurrentFile)
  /\ \E analysis_result \in AnalysisResults :
       /\ ~startswith(analysis_result, ERROR_)
       /\ txt_files' = [txt_files EXCEPT ![file_index + 1].text =
                          appended_text(CurrentFile.text, analysis_result)]
  /\ success_count' = success_count + 1
  /\ events' = events \o <<"llm">> \o SleepUnlessLast
  /\ outcomes' = Append(outcomes, "appended")
  /\ file_index' = file_index + 1
  /\ UNCHANGED <<pc, batchFrame, skipped_count>>

\* lines 223-239: append_analysis_to_file raises inside, logs and returns False; the
\* file is not counted, the sleep follows
AppendFails ==
  /\ pc = "batch_loop"
  /\ file_index < Len(txt_files)
  /\ ReachesAnalysis(CurrentFile)
  /\ \E analysis_result \in AnalysisResults :
       ~startswith(analysis_result, ERROR_)
  /\ \E left \in FailedAppendTexts(CurrentFile.text) :
       txt_files' = [txt_files EXCEPT ![file_index + 1].text = left]
  /\ events' = events \o <<"llm">> \o SleepUnlessLast
  /\ outcomes' = Append(outcomes, "append_failed")
  /\ file_index' = file_index + 1
  /\ UNCHANGED <<pc, batchFrame, success_count, skipped_count>>

\* lines 241-245: the list is exhausted, the counts are logged
LoopEnds ==
  /\ pc = "batch_loop"
  /\ file_index = Len(txt_files)
  /\ pc' = "batch_done"
  /\ UNCHANGED <<batchFrame, txt_files, file_index, success_count, skipped_count,
                 outcomes, events>>

NextBatch ==
  \/ ClientMissing
  \/ StartLoop
  \/ SkipAnalysed
  \/ ExtractFails
  \/ NothingToAnalyse
  \/ AnalysisFails
  \/ AnalysisAppended
  \/ AppendFails
  \/ LoopEnds

SpecBatch == InitBatch /\ [][NextBatch]_vars

(***************************************************************************)
(* 3_create_markdown.py: process_single_text_file, process_text_folder and *)
(* the command line                                                        *)
(*                                                                         *)
(* txt_files are the text files, md_files[k] is the markdown file that     *)
(* belongs to txt_files[k] (same base name, in markdown_folder). With a    *)
(* file as input path the file is txt_files[1]. Each iteration of the for  *)
(* loop is one step.                                                       *)
(***************************************************************************)
\* the record with an analysis stage 3 accepts
RecordWithAnalysis == appended_text(RecordPlain, AnalysisNoGap)

\* a record with an analysis, a record without one, a file open() fails on
TextFileSamples ==
  {[text |-> RecordWithAnalysis, readable |-> TRUE],
   [text |-> RecordPlain, readable |-> TRUE],
   [text |-> RecordPlain, readable |-> FALSE]}

\* the markdown file an earlier run wrote, from the record with another analysis
OldMarkdown ==
  LET written == markdown_of(extract_data_from_file(appended_text(RecordPlain, AnalysisFull)))
  IN  [exists |-> TRUE, frontmatter |-> written.frontmatter, body |-> written.body]

\* the file after open(output_path, 'w') when the write then fails
EmptiedMarkdown == [NoMarkdown EXCEPT !.exists = TRUE]

MarkdownFileSamples == {NoMarkdown, OldMarkdown}

\* the input paths that are files: a.txt | A.TXT | a.md
InputFileSamples ==
  {<<"a",".","t","x","t">>,
   <<"A",".","T","X","T">>,
   <<"a",".","m","d">>}

\* a path glob(text_folder/*.txt) gives
GlobbedPath == <<"a",".","t","x","t">>

DOT_TXT == <<".","t","x","t">>

\* create_markdown_file(data, md_path) for the dictionary d and the file m at the
\* path: the file written and True, or, when open() or write() raises, the file as
\* it was or emptied and False
create_markdown_file(d, m) ==
  LET written == markdown_of(d)
  IN  {[result |-> TRUE, outcome |-> "created",
        md |-> [exists |-> TRUE, frontmatter |-> written.frontmatter,
                body |-> written.body]],
       [result |-> FALSE, outcome |-> "write_failed", md |-> m],
       [result |-> FALSE, outcome |-> "write_failed", md |-> EmptiedMarkdown]}

\* process_single_text_file from line 249 on: the file is read and rendered
extract_and_create(f, m) ==
  IF ~f.readable
  THEN {[result |-> FALSE, outcome |-> "extract_failed", md |-> m]}
  ELSE LET d == extract_data_from_file(f.text)
       IN  IF d.summary = <<>> /\ d.keywords = <<>>
           THEN {[result |-> FALSE, outcome |-> "no_analysis", md |-> m]}
           ELSE create_markdown_file(d, m)

\* process_single_text_file without the test of line 245
process_single_text_file_no_test(txt_path, f, m, overwrite_arg) ==
  IF ~endswith(lower(txt_path), DOT_TXT)
  THEN {[result |-> FALSE, outcome |-> "not_text", md |-> m]}
  ELSE extract_and_create(f, m)

\* process_single_text_file(txt_path, markdown_folder, overwrite) on the existing
\* file f at txt_path, m being the file at md_path: what it may return and leave at
\* md_path
process_single_text_file(txt_path, f, m, overwrite_arg) ==
  IF ~endswith(lower(txt_path), DOT_TXT)
  THEN {[result |-> FALSE, outcome |-> "not_text", md |-> m]}
  ELSE IF m.exists /\ ~overwrite_arg
       THEN {[result |-> TRUE, outcome |-> "exists", md |-> m]}
       ELSE extract_and_create(f, m)

InitMarkdown ==
  /\ pc = "main"
  /\ txt_files \in SeqsUpTo(TextFileSamples, MaxFiles)
  /\ md_files \in [1..Len(txt_files) -> MarkdownFileSamples]
  /\ overwrite \in BOOLEAN
  /\ original_files = txt_files
  /\ file_index = 0
  /\ success_count = 0
  /\ skipped_count = 0
  /\ outcomes = <<>>
  /\ events = <<>>
  /\ exit_code = <<>>
  /\ pdf_files = <<>>
  /\ record_files = NoRecordFiles
  /\ IdleKeywords
  /\ IdleFilename
  /\ IdlePipeline
  /\ IdlePdf

markdownFrame ==
  <<kwVars, nameVars, pipeVars, pdfVars, txt_files, original_files, overwrite, events,
    pdf_files, record_files>>

\* lines 279-286: the input path is a file; process_single_text_file, then sys.exit
RunSingleFile ==
  /\ pc = "main"
  /\ txt_files # <<>>
  /\ \E input_path \in InputFileSamples :
       \E r \in process_single_text_file(input_path, txt_files[1], md_files[1], overwrite) :
         /\ md_files' = [md_files EXCEPT ![1] = r.md]
         /\ outcomes' = <<r.outcome>>
         /\ exit_code' = IF r.result THEN <<0>> ELSE <<1>>
  /\ pc' = "file_exited"
  /\ UNCHANGED <<markdownFrame, file_index, success_count, skipped_count>>

\* lines 291-293: the input path is neither a file nor a directory
InvalidInputPath ==
  /\ pc = "main"
  /\ exit_code' = <<1>>
  /\ pc' = "invalid_exited"
  /\ UNCHANGED <<markdownFrame, md_files, file_index, success_count, skipped_count,
                 outcomes>>

\* lines 287-289 and 196-203: the input path is a directory; files listed, counters 0
StartFolder ==
  /\ pc = "main"
  /\ pc' = "folder_loop"
  /\ UNCHANGED <<markdownFrame, md_files, exit_code, file_index, success_count,
                 skipped_count, outcomes>>

\* lines 212-215: the markdown file exists and overwrite is off
FolderSkip ==
  /\ pc = "folder_loop"
  /\ file_index < Len(txt_files)
  /\ md_files[file_index + 1].exists /\ ~overwrite
  /\ skipped_count' = skipped_count + 1
  /\ outcomes' = Append(outcomes, "skipped")
  /\ file_index' = file_index + 1
  /\ UNCHANGED <<pc, markdownFrame, md_files, exit_code, success_count>>

\* lines 217-218: process_single_text_file is called, True is counted
FolderProcess ==
  /\ pc = "folder_loop"
  /\ file_index < Len(txt_files)
  /\ ~(md_files[file_index + 1].exists /\ ~overwrite)
  /\ \E r \in process_single_text_file(GlobbedPath, CurrentFile,
                                       md_files[file_index + 1], overwrite) :
       /\ md_files' = [md_files EXCEPT ![file_index + 1] = r.md]
       /\ outcomes' = Append(outcomes, r.outcome)
       /\ success_count' = IF r.result THEN success_count + 1 ELSE success_count
  /\ file_index' = file_index + 1
  /\ UNCHANGED <<pc, markdownFrame, exit_code, skipped_count>>

\* lines 220-225 and 290: the counts are logged, sys.exit(0)
FolderEnds ==
  /\ pc = "folder_loop"
  /\ file_index = Len(txt_files)
  /\ exit_code' = <<0>>
  /\ pc' = "folder_exited"
  /\ UNCHANGED <<markdownFrame, md_files, file_index, success_count, skipped_count,
                 outcomes>>

NextMarkdown ==
  \/ RunSingleFile
  \/ InvalidInputPath
  \/ StartFolder
  \/ FolderSkip
  \/ FolderProcess
  \/ FolderEnds

SpecMarkdown == InitMarkdown /\ [][NextMarkdown]_vars

(***************************************************************************)
(* 1_extract_paper_data.py: process_pdf_folder                             *)
(*                                                                         *)
(* pdf_files are the paths glob gives, record_files is the output folder.  *)
(* What is found at a path (the document, the introduction that            *)
(* extract_introduction.process_file returns, the abstract Zotero holds)   *)
(* is chosen when the file is processed. Each iteration of the for loop,   *)
(* one call of process_pdf_with_zotero, is one step; outcomes is the list  *)
(* results.                                                                *)
(***************************************************************************)
MaxPdfs == 2

\* /d/Smith - 2020 - A.pdf | /d/Smith - 2020 - B.pdf | /d/a b.pdf | /d/a_b.pdf |
\* /d/paper.pdf
FolderPdfPaths ==
  {<<"/","d","/","S","m","i","t","h"," ","-"," ","2","0","2","0"," ","-"," ","A",".","p","d","f">>,
   <<"/","d","/","S","m","i","t","h"," ","-"," ","2","0","2","0"," ","-"," ","B",".","p","d","f">>,
   <<"/","d","/","a"," ","b",".","p","d","f">>,
   <<"/","d","/","a","_","b",".","p","d","f">>,
   PathPlain}

FolderDocuments == {OpenDocument(MetaFull, PageByLine), [kind |-> "unopenable"]}

\* the abstractNote of the Zotero item: none found, or X
ZoteroAbstracts == {<<>>, <<"X">>}

Distinct(paths) == \A i, j \in 1..Len(paths) : i # j => paths[i] # paths[j]

\* the folder with the file name written
WithFile(files, name, text) ==
  [n \in DOMAIN files \cup {name} |-> IF n = name THEN text ELSE files[n]]

InitFolder ==
  /\ pc = "pdf_loop"
  /\ pdf_files \in {paths \in SeqsUpTo(FolderPdfPaths, MaxPdfs) : Distinct(paths)}
  /\ record_files = NoRecordFiles
  /\ file_index = 0
  /\ outcomes = <<>>
  /\ md_files = <<>>
  /\ exit_code = <<>>
  /\ txt_files = <<>>
  /\ original_files = <<>>
  /\ overwrite = FALSE
  /\ success_count = 0
  /\ skipped_count = 0
  /\ events = <<>>
  /\ IdleKeywords
  /\ IdleFilename
  /\ IdlePipeline
  /\ IdlePdf

folderFrame ==
  <<kwVars, nameVars, pipeVars, pdfVars, pdf_files, txt_files, original_files, overwrite,
    success_count, skipped_count, events, md_files, exit_code>>

\* lines 291-293 with process_pdf_with_zotero(pdf_path, output_folder, zot): the data
\* are extracted, the record is written to <base_name>.txt, the result is appended
ProcessPdf ==
  /\ pc = "pdf_loop"
  /\ file_index < Len(pdf_files)
  /\ \E doc \in FolderDocuments, extracted \in PaperIntroductions,
        abstract \in ZoteroAbstracts :
       LET path == pdf_files[file_index + 1]
           introduction_text == IF extracted = <<>> THEN IntroductionFailed ELSE extracted
           r == extract_title_authors_from_pdf(doc)
           year == extract_year(path, doc)
           name == normalize_filename(path)
           output_name == name \o DOT_TXT
       IN  IF r.raised
           THEN /\ pc' = "crashed"
                /\ UNCHANGED <<record_files, outcomes, file_index>>
           ELSE /\ record_files' =
                     WithFile(record_files, output_name,
                              record_text(r.title, r.authors, year, abstract,
                                          introduction_text))
                /\ outcomes' = Append(outcomes,
                     [title |-> r.title, authors |-> r.authors, year |-> year,
                      abstract |-> abstract, introduction |-> introduction_text,
                      output_path |-> output_name, base_name |-> name])
                /\ file_index' = file_index + 1
                /\ pc' = pc
  /\ UNCHANGED folderFrame

\* lines 295-296: the list is exhausted, results is returned
PdfFolderEnds ==
  /\ pc = "pdf_loop"
  /\ file_index = Len(pdf_files)
  /\ pc' = "pdf_folder_done"
  /\ UNCHANGED <<folderFrame, record_files, outcomes, file_index>>

NextFolder == ProcessPdf \/ PdfFolderEnds

SpecFolder == InitFolder /\ [][NextFolder]_vars

(***************************************************************************)
(* Claims about ensure_keywords_in_singular, under SpecKeywords            *)
(***************************************************************************)
\* C5: ensure_keywords_in_singular maps "biomarkers" to "biomarker", leaves "species"
\* unchanged and maps "analyses" to "analys".
C5_LiteralCases ==
  pc = "keywords_returned" =>
    /\ keywords = << <<"b","i","o","m","a","r","k","e","r","s">> >>
         => singular_keywords = << <<"b","i","o","m","a","r","k","e","r">> >>
    /\ keywords = << <<"s","p","e","c","i","e","s">> >>
         => singular_keywords = << <<"s","p","e","c","i","e","s">> >>
    /\ keywords = << <<"a","n","a","l","y","s","e","s">> >>
         => singular_keywords = << <<"a","n","a","l","y","s">> >>

\* k is stem + suffix for some stem
EndsIn(k, suffix) == \E n \in 0..Len(k) : k = SubSeq(k, 1, n) \o suffix

Rule1Applies(k) == EndsIn(k, <<"i","e","s">>) /\ ~EndsIn(k, <<"s","e","r","i","e","s">>)

Rule2Applies(k) ==
  /\ EndsIn(k, <<"e","s">>)
  /\ ~EndsIn(k, <<"s","p","e","c","i","e","s">>)
  /\ ~EndsIn(k, <<"s","e","r","i","e","s">>)

Rule3Applies(k) ==
  /\ EndsIn(k, <<"s">>)
  /\ \A c \in {"s", "i", "u", "o"} : ~EndsIn(k, <<c, "s">>)

\* img is the image of keyword k under the first matching rule of the list
IsRuleImage(k, img) ==
  \/ Rule1Applies(k) /\ \E n \in 0..Len(k) :
        k = SubSeq(k, 1, n) \o <<"i","e","s">> /\ img = SubSeq(k, 1, n) \o <<"y">>
  \/ ~Rule1Applies(k) /\ Rule2Applies(k) /\ k = img \o <<"e","s">>
  \/ ~Rule1Applies(k) /\ ~Rule2Applies(k) /\ Rule3Applies(k) /\ k = img \o <<"s">>
  \/ ~Rule1Applies(k) /\ ~Rule2Applies(k) /\ ~Rule3Applies(k) /\ img = k

\* what an image can be: a prefix of the keyword, or such a prefix and "y"
ImageCandidates(k) ==
  {SubSeq(k, 1, n) : n \in 0..Len(k)} \cup {SubSeq(k, 1, n) \o <<"y">> : n \in 0..Len(k)}

RuleImages(kws) ==
  [i \in 1..Len(kws) |-> CHOOSE img \in ImageCandidates(kws[i]) : IsRuleImage(kws[i], img)]

NonEmpty(s) == s # <<>>

\* C6: the list returned holds, in the input order, the image of every keyword under
\* the first matching rule of the list (ies -> y unless series; es dropped unless
\* species or series; s dropped unless ss, is, us, os; else unchanged), the empty
\* images left out: it never holds an empty string.
C6_RuleList ==
  pc = "keywords_returned" =>
    /\ \A i \in 1..Len(keywords) : \E img \in ImageCandidates(keywords[i]) :
         IsRuleImage(keywords[i], img)
    /\ singular_keywords = SelectSeq(RuleImages(keywords), NonEmpty)
    /\ \A i \in 1..Len(singular_keywords) : singular_keywords[i] # <<>>

\* a call whose first keyword falls under the first rule and whose second has an
\* empty image
C6_Witness ==
  /\ pc = "keywords_returned"
  /\ keywords = << <<"s","t","u","d","i","e","s">>, <<"e","s">> >>
  /\ singular_keywords = << <<"s","t","u","d","y">> >>

(***************************************************************************)
(* Claims about normalize_filename, under SpecFilename                     *)
(***************************************************************************)
AllIn(s, a, b, C) == \A q \in a..b : s[q] \in C

\* The base name b has the dash-separated shape Author - Year - Title, the author
\* part being b[1..n] and the four digits of the year standing at y..y+3: a dash
\* follows the author part, the year follows that dash, a second dash follows the
\* year, each with any whitespace around it.
DashShape(b, n, y) ==
  \E d1 \in (n + 1)..Len(b), d2 \in (y + 4)..Len(b) :
    /\ b[d1] = "-" /\ AllIn(b, n + 1, d1 - 1, Whitespace)
    /\ d1 < y /\ AllIn(b, d1 + 1, y - 1, Whitespace)
    /\ y + 3 <= Len(b) /\ AllIn(b, y, y + 3, Digit)
    /\ b[d2] = "-" /\ AllIn(b, y + 4, d2 - 1, Whitespace)

\* the author part cleaned: periods removed, spaces replaced by underscores, every
\* remaining non-word character removed
CleanedAuthor(a) ==
  LET underscored == [i \in 1..Len(a) |-> IF a[i] = " " THEN "_" ELSE a[i]]
  IN  SelectSeq(underscored, LAMBDA c : c # "." /\ c \in WordChar)

\* the base name of the path called with
GivenBase == splitext_root(basename(pdf_path))

\* C3: for a file name whose base name has the shape Author - Year - Title, the
\* name returned is <cleanedAuthor>_<year>, the author part being the shortest one
\* the shape allows, without the whitespace around it; so never the result of
\* pattern 2, pattern 3 or the fallback where that differs.
C3_DashShapeFirst ==
  pc = "path_returned" =>
    \A n \in 0..Len(GivenBase), y \in 1..Len(GivenBase) :
      (/\ DashShape(GivenBase, n, y)
       /\ \A m \in 0..(n - 1), z \in 1..Len(GivenBase) : ~DashShape(GivenBase, m, z))
      => base_name = CleanedAuthor(strip(SubSeq(GivenBase, 1, n)))
                       \o <<"_">> \o SubSeq(GivenBase, y, y + 3)

\* a name of the dash shape that patterns 2 and 3 and the fallback match too, each
\* with another result ("A_1999", "A_1999_B_2020_T")
C3_Witness ==
  /\ pc = "path_returned"
  /\ pdf_path = <<"/","d","/","A","_","1","9","9","9","_","B"," ","-"," ","2","0","2","0"," ","-"," ","T","_","2","0","0","0","_","x",".","p","d","f">>
  /\ DashShape(GivenBase, 8, 12)
  /\ Pattern2Lengths(GivenBase) # {}
  /\ pattern2_result(GivenBase) # base_name
  /\ fallback_result(GivenBase) # base_name
  /\ base_name = <<"A","_","1","9","9","9","_","B","_","2","0","2","0">>

(***************************************************************************)
(* Claims about the record and its analysis section, under Spec            *)
(***************************************************************************)
SingleLine(s) == \A i \in 1..Len(s) : s[i] # "\n"

NoOuterWhitespace(s) == strip(s) = s

\* no blank line followed by a label of upper-case letters inside s
NoLabelAfterBlankLine(s) == \A p \in 1..Len(s) : ~SectionEndAt(s, p)

\* the records the round trip is stated for; the abstract may be empty
RoundTripDomain(r) ==
  /\ SingleLine(r.title) /\ SingleLine(r.authors) /\ SingleLine(r.year)
  /\ \A v \in {r.title, r.authors, r.year, r.abstract, r.introduction} :
       NoOuterWhitespace(v) /\ NoLabelAfterBlankLine(v)

\* C1: the record stage 1 has just written, read back by extract_data_from_file and
\* by extract_content_from_file, gives the title, authors, year, abstract and
\* introduction that were written, an empty abstract included.
C1_RoundTrip ==
  (txt.exists /\ appended = <<>> /\ RoundTripDomain(paper)) =>
    LET d == extract_data_from_file(txt.text)
        c == extract_content_from_file(txt.text)
    IN  /\ d.title = paper.title
        /\ d.authors = paper.authors
        /\ d.year = paper.year
        /\ d.abstract = paper.abstract
        /\ d.introduction = paper.introduction
        /\ c.title = paper.title
        /\ c.abstract = paper.abstract
        /\ c.introduction = paper.introduction

\* the number of places at which lit occurs in s
CountOccurrences(s, lit) == Cardinality({i \in 1..Len(s) : StartsAt(s, i, lit)})

\* the record as stage 1 wrote it
OriginalRecord ==
  record_text(paper.title, paper.authors, paper.year, paper.abstract, paper.introduction)

\* the marker lines append_analysis_to_file puts before the analysis
AnalysisHeader == NL \o NL \o CLAUDE_ANALYSIS_ \o NL

\* C2: after append_analysis_to_file was called with R1 and then with R2, the file
\* is the one that appending R2 alone to the original record gives: the record, one
\* "CLAUDE ANALYSIS:" marker, and R2; the marker occurs once and nothing of R1 is left.
C2_SecondAnalysisReplacesFirst ==
  (txt.exists /\ Len(appended) >= 2) =>
    LET R2 == appended[Len(appended)]
    IN  /\ txt.text = appended_text(OriginalRecord, R2)
        /\ txt.text = OriginalRecord \o AnalysisHeader \o R2
        /\ CountOccurrences(txt.text, CLAUDE_ANALYSIS_) = 1
        /\ claude_analysis_value(txt.text) = strip(R2)

\* two different analyses were appended, one after the other
C2_Witness ==
  /\ txt.exists
  /\ Len(appended) = 2
  /\ appended[1] = AnalysisFull
  /\ appended[2] = AnalysisNoGap
  /\ CountOccurrences(txt.text, CLAUDE_ANALYSIS_) = 1

(***************************************************************************)
(* Claims about the markdown file, under Spec                              *)
(***************************************************************************)
\* Foo, A. Bar, 2023, X, Y with the analysis that ends in
\* "KEYWORDS: genes, Protein_Levels, species"
RecordWithKeywordsLine ==
  record_text(<<"F","o","o">>, <<"A","."," ","B","a","r">>, <<"2","0","2","3">>, <<"X">>, <<"Y">>) \o AnalysisHeader \o AnalysisFull

\* C4: stage 3 on a record whose analysis holds "KEYWORDS: genes, Protein_Levels,
\* species" writes the front matter tags gene, Protein_Level, species, in that order.
C4_EndToEndTags ==
  (pc = "stage3_done" /\ content = RecordWithKeywordsLine) =>
    md.frontmatter.tags = << <<"g","e","n","e">>, <<"P","r","o","t","e","i","n","_","L","e","v","e","l">>, <<"s","p","e","c","i","e","s">> >>

IsHeadingLine(line) == startswith(line, <<"#", " ">>)

\* the H1 headings of a markdown text, from top to bottom
H1Headings(s) == SelectSeq(SplitLines(s), IsHeadingLine)

\* a heading of s with nothing on the line under it
HasEmptyBody(s, heading) ==
  LET lines == SplitLines(s)
  IN  \E i \in 1..Len(lines) :
        lines[i] = heading /\ (i = Len(lines) \/ lines[i + 1] = <<>>)

OptionalHeadings == {H1_SUMMARY, H1_KEYWORDS, H1_GAP, H1_OBJECTIVES, H1_ABSTRACT}

AllHeadings == {H1_TITLE, H1_AUTHOR} \cup OptionalHeadings

HeadingIf(present, heading) == IF present THEN <<heading>> ELSE <<>>

\* d holds no heading line in a field that is rendered
NoHeadingLines(d) ==
  /\ \A v \in {d.title, d.authors, d.summary, d.gap, d.objectives, d.abstract} :
       H1Headings(v) = <<>>
  /\ \A i \in 1..Len(d.keywords) : H1Headings(d.keywords[i]) = <<>>

\* the dictionary process_single_text_file handed to create_markdown_file
GivenData == extract_data_from_file(content)

\* C7, as stated: the H1 headings of the file are TITLE, AUTHOR and then those of
\* SUMMARY, KEYWORDS, RESEARCH GAP/PROBLEM, OBJECTIVES, ABSTRACT whose content in
\* the given dictionary (summary, normalized keywords, gap, objectives, abstract) is
\* non-empty, in that order; an empty gap gives no gap heading; no heading has an
\* empty body.
C7_SectionsAsStated ==
  (pc = "stage3_done" /\ NoHeadingLines(GivenData)) =>
    /\ H1Headings(md.body) =
         <<H1_TITLE, H1_AUTHOR>>
           \o HeadingIf(GivenData.summary # <<>>, H1_SUMMARY)
           \o HeadingIf(ensure_keywords_in_singular(GivenData.keywords) # <<>>, H1_KEYWORDS)
           \o HeadingIf(GivenData.gap # <<>>, H1_GAP)
           \o HeadingIf(GivenData.objectives # <<>>, H1_OBJECTIVES)
           \o HeadingIf(GivenData.abstract # <<>>, H1_ABSTRACT)
    /\ GivenData.gap = <<>> => ~Contains(md.body, H1_GAP)
    /\ \A h \in AllHeadings : ~HasEmptyBody(md.body, h)

\* C7, amended: the same with the summary taken after the "RESEARCH GAP/PROBLEM:"
\* block inside it was removed (data["summary"] after the call), and with an empty
\* body ruled out for the five optional headings only: TITLE and AUTHOR are written
\* also when the title or the authors are empty.
C7_SectionsAmended ==
  (pc = "stage3_done" /\ NoHeadingLines(GivenData)) =>
    /\ H1Headings(md.body) =
         <<H1_TITLE, H1_AUTHOR>>
           \o HeadingIf(data.summary # <<>>, H1_SUMMARY)
           \o HeadingIf(md.frontmatter.tags # <<>>, H1_KEYWORDS)
           \o HeadingIf(data.gap # <<>>, H1_GAP)
           \o HeadingIf(data.objectives # <<>>, H1_OBJECTIVES)
           \o HeadingIf(data.abstract # <<>>, H1_ABSTRACT)
    /\ md.frontmatter.tags = ensure_keywords_in_singular(GivenData.keywords)
    /\ data = data_after_markdown(GivenData)
    /\ data.gap = <<>> => ~Contains(md.body, H1_GAP)
    /\ \A h \in OptionalHeadings : ~HasEmptyBody(md.body, h)
    /\ HasEmptyBody(md.body, H1_TITLE) <=> data.title = <<>>
    /\ HasEmptyBody(md.body, H1_AUTHOR) <=> data.authors = <<>>

\* a file written for a dictionary with an empty title and an empty gap: the TITLE
\* heading is there with an empty body, a gap heading is not
C7_Witness ==
  /\ pc = "stage3_done"
  /\ NoHeadingLines(GivenData)
  /\ data.title = <<>>
  /\ data.gap = <<>>
  /\ data.summary # <<>>
  /\ HasEmptyBody(md.body, H1_TITLE)
  /\ H1Headings(md.body) = <<H1_TITLE, H1_AUTHOR, H1_SUMMARY, H1_KEYWORDS, H1_OBJECTIVES, H1_ABSTRACT>>

(***************************************************************************)
(* Claims about the extraction from the PDF, under SpecPdf                 *)
(***************************************************************************)
\* v is a str
IsStr(v) == v \in Seq(STRING)

\* the file cannot be opened, or it opens without metadata and readable pages
CannotBeRead(doc) == doc.kind \in {"unopenable", "encrypted"}

\* the metadata value gives no text: the key is missing or the text is blank
GivesNoText(value) == value.kind = "absent" \/ (value.kind = "str" /\ strip(value.str) = <<>>)

\* the file opens but has no page, and the first page is needed because the
\* metadata holds no title or no author
FirstPageMissing(doc) ==
  /\ doc.kind = "open"
  /\ doc.pages = <<>>
  /\ doc.metadata.title.kind # "None"
  /\ doc.metadata.author.kind # "None"
  /\ GivesNoText(doc.metadata.title) \/ GivesNoText(doc.metadata.author)

FileNameHasFourDigits == \E p \in 1..Len(basename(pdf_path)) : FourDigitsAt(basename(pdf_path), p)

\* C8: extract_title_authors_from_pdf and extract_year never let an exception reach
\* the caller: each returns strings for every file; for a file that cannot be opened
\* or read the pair is ("Unknown Title", "Unknown Author"), and the year is "Unknown
\* Year" when the file name holds no four digits.
C8_ExtractionNeverRaises ==
  /\ pc # "crashed"
  /\ pc \in {"title_authors_returned", "year_returned"} =>
       /\ IsStr(pdf_title) /\ IsStr(pdf_authors)
       /\ (CannotBeRead(document) \/ FirstPageMissing(document)) =>
            pdf_title = UnknownTitle /\ pdf_authors = UnknownAuthor
  /\ pc = "year_returned" =>
       /\ IsStr(pdf_year)
       /\ (CannotBeRead(document) /\ ~FileNameHasFourDigits) => pdf_year = UnknownYear

\* both functions have returned for a file that cannot be opened and whose name
\* holds no digits
C8_Witness ==
  /\ pc = "year_returned"
  /\ document.kind = "unopenable"
  /\ pdf_path = PathPlain
  /\ pdf_title = UnknownTitle
  /\ pdf_authors = UnknownAuthor
  /\ pdf_year = UnknownYear

\* y is the first match of four digits in s, each place p of P being a match
IsFirstAt(s, P, y) ==
  \E p \in P : (\A q \in P : p <= q) /\ y = SubSeq(s, p, p + 3)

\* the places of s where "D:" and four digits stand, given as the place of the digits
DateMatches(s) ==
  {p \in 1..Len(s) : CharAt(s, p - 2, "D") /\ CharAt(s, p - 1, ":") /\ FourDigitsAt(s, p)}

\* the places of s where a token 19xx or 20xx stands
YearTokens(s) ==
  {p \in 1..Len(s) :
     /\ FourDigitsAt(s, p)
     /\ SubSeq(s, p, p + 1) \in {<<"1", "9">>, <<"2", "0">>}
     /\ ~CharIn(s, p - 1, WordChar)
     /\ ~CharIn(s, p + 4, WordChar)}

\* the metadata field is there, is a non-empty str and holds a date
DateIn(doc, field) ==
  /\ doc.kind = "open"
  /\ doc.metadata[field].kind = "str"
  /\ DateMatches(doc.metadata[field].str) # {}

\* the first FirstPageChars characters of page 1, when there is a page to read
FirstPageHead(doc) ==
  IF doc.kind = "open" /\ doc.pages # <<>>
  THEN SubSeq(doc.pages[1], 1, IF Len(doc.pages[1]) < FirstPageChars
                                THEN Len(doc.pages[1]) ELSE FirstPageChars)
  ELSE <<>>

\* C9: extract_year returns the first four digits of the file name when it has any,
\* whatever the metadata and the page say; otherwise the year of creationDate, or
\* else of modDate, matching D:YYYY; otherwise the first 19xx/20xx token within the
\* first 1000 characters of page 1; otherwise "Unknown Year". The result is four
\* digits or "Unknown Year".
C9_YearPriority ==
  pc = "year_returned" =>
    LET name == basename(pdf_path)
        head == FirstPageHead(document)
    IN  /\ IF FileNameHasFourDigits
             THEN IsFirstAt(name, {p \in 1..Len(name) : FourDigitsAt(name, p)}, pdf_year)
           ELSE IF DateIn(document, "creationDate")
             THEN IsFirstAt(document.metadata.creationDate.str,
                            DateMatches(document.metadata.creationDate.str), pdf_year)
           ELSE IF DateIn(document, "modDate")
             THEN IsFirstAt(document.metadata.modDate.str,
                            DateMatches(document.metadata.modDate.str), pdf_year)
           ELSE IF YearTokens(head) # {}
             THEN IsFirstAt(head, YearTokens(head), pdf_year)
           ELSE pdf_year = UnknownYear
        /\ \/ Len(pdf_year) = 4 /\ FourDigitsAt(pdf_year, 1)
           \/ pdf_year = UnknownYear

\* the file name, the metadata and the page all hold a year, three different ones:
\* the one of the file name is returned
C9_Witness ==
  /\ pc = "year_returned"
  /\ pdf_path = PathWithYear
  /\ document = OpenDocument(MetaFull, PageByLine)
  /\ pdf_year = <<"2","0","2","0">>

(***************************************************************************)
(* Claims about the stage-2 batch, under SpecBatch                         *)
(***************************************************************************)
\* the iterations that ended in a failure of the extraction, of the LLM call or of
\* the append
FailedOutcomes == {"extract_failed", "llm_failed", "append_failed"}

\* the number of files whose analysis was appended
AppendedFiles == {k \in 1..Len(outcomes) : outcomes[k] = "appended"}

\* C10: when the content extraction, the LLM call or the append fails for a file, the
\* file is left as it was and the loop goes on: at the end every file was visited
\* once, and success_count counts the files whose analysis was appended.
C10_FailureIsolation ==
  /\ \A k \in 1..Len(outcomes) :
       outcomes[k] \in FailedOutcomes => txt_files[k].text = original_files[k].text
  /\ Len(outcomes) = file_index
  /\ pc = "batch_done" => Len(outcomes) = Len(txt_files)
  /\ success_count = Cardinality(AppendedFiles)
  /\ \A k \in AppendedFiles :
       \E analysis_result \in AnalysisResults :
         txt_files[k].text = appended_text(original_files[k].text, analysis_result)

\* the file the step is at had an analysis when the run began and could be read
AtAnalysedFile ==
  /\ pc = "batch_loop"
  /\ file_index < Len(txt_files)
  /\ CurrentFile.readable
  /\ Contains(CurrentFile.text, CLAUDE_ANALYSIS_)

\* the number of LLM calls made so far
LlmCalls == Cardinality({e \in 1..Len(events) : events[e] = "llm"})

\* a step of the loop at a file with an analysis: without overwrite the file is
\* passed by, with overwrite it is analysed again
OverwritePolicyStep ==
  (AtAnalysedFile /\ file_index' = file_index + 1) =>
    IF ~overwrite
    THEN /\ txt_files' = txt_files
         /\ events' = events
         /\ skipped_count' = skipped_count + 1
         /\ success_count' = success_count
    ELSE /\ skipped_count' = skipped_count
         /\ LET before == extract_content_from_file(CurrentFile.text)
            IN  (before.abstract # <<>> \/ before.introduction # <<>>) =>
                  /\ Len(events') > Len(events)
                  /\ events'[Len(events) + 1] = "llm"
         /\ success_count' = success_count + 1 =>
              \E analysis_result \in AnalysisResults :
                /\ txt_files'[file_index + 1].text =
                     remove_analysis(CurrentFile.text) \o AnalysisHeader \o analysis_result
                /\ CountOccurrences(txt_files'[file_index + 1].text, CLAUDE_ANALYSIS_) = 1

\* C11: without overwrite a file that holds "CLAUDE ANALYSIS:" is skipped: no LLM
\* call is made for it, it is left as it was and it is counted in skipped_count, and
\* only such files are counted there; with overwrite the file is analysed again and
\* the appended analysis takes the place of the old one.
C11_OverwritePolicy ==
  /\ [][OverwritePolicyStep]_vars
  /\ [](\A k \in 1..Len(outcomes) :
          (original_files[k].readable
             /\ Contains(original_files[k].text, CLAUDE_ANALYSIS_) /\ ~overwrite)
            => (outcomes[k] = "skipped" /\ txt_files[k] = original_files[k]))
  /\ [](skipped_count =
          Cardinality({k \in 1..Len(outcomes) :
                         /\ original_files[k].readable
                         /\ Contains(original_files[k].text, CLAUDE_ANALYSIS_)
                         /\ ~overwrite}))

\* a run without overwrite over a file with an analysis and a file without: the
\* first was skipped and is as it was, the one LLM call was for the second
C11_Witness ==
  /\ pc = "batch_done"
  /\ ~overwrite
  /\ original_files = <<[text |-> RecordAnalysed, readable |-> TRUE],
                        [text |-> RecordPlain, readable |-> TRUE]>>
  /\ outcomes = <<"skipped", "appended">>
  /\ txt_files[1] = original_files[1]
  /\ skipped_count = 1
  /\ LlmCalls = 1

\* C14: between any two consecutive LLM calls of a run, successful or failed, the
\* delay time.sleep(1) is executed: no call follows another without a sleep between.
C14_DelayBetweenCalls ==
  \A e \in 1..(Len(events) - 1) : ~(events[e] = "llm" /\ events[e + 1] = "llm")

(***************************************************************************)
(* Claims about the record after the analysis was appended, under Spec     *)
(***************************************************************************)
\* the answer holds the four labels, in the order of the prompt
FourSectionFormat(analysis_result) ==
  LET a == find(analysis_result, SUMMARY_, 1)
      b == find(analysis_result, RESEARCH_GAP_, 1)
      c == find(analysis_result, OBJECTIVES_, 1)
      e == find(analysis_result, KEYWORDS_, 1)
  IN  0 < a /\ a < b /\ b < c /\ c < e

\* the one analysis appended so far
OnlyAnalysis == appended[1]

\* C15: after append_analysis_to_file on a record written by stage 1, with an
\* analysis in the four-section format, the title, authors, year, abstract and
\* introduction that extract_data_from_file and extract_content_from_file parse from
\* the file are those they parsed before the append, and the parsed introduction
\* holds nothing of the "CLAUDE ANALYSIS:" section.
C15_AppendKeepsRecord ==
  (txt.exists /\ Len(appended) = 1 /\ FourSectionFormat(OnlyAnalysis)) =>
    LET before3 == extract_data_from_file(OriginalRecord)
        after3 == extract_data_from_file(txt.text)
        before2 == extract_content_from_file(OriginalRecord)
        after2 == extract_content_from_file(txt.text)
    IN  /\ txt.text = OriginalRecord \o AnalysisHeader \o OnlyAnalysis
        /\ after3.title = before3.title
        /\ after3.authors = before3.authors
        /\ after3.year = before3.year
        /\ after3.abstract = before3.abstract
        /\ after3.introduction = before3.introduction
        /\ after2.title = before2.title
        /\ after2.abstract = before2.abstract
        /\ after2.introduction = before2.introduction
        /\ ~Contains(after3.introduction, CLAUDE_ANALYSIS_)
        /\ ~Contains(after2.introduction, CLAUDE_ANALYSIS_)

\* C16: a record written with an empty abstract and a non-empty introduction, then
\* analysed, then rendered: stage 3 parses the abstract as the empty string, and the
\* markdown has no "# ABSTRACT" heading and no introduction text under one.
C16_EmptyAbstractOmitted ==
  (pc = "stage3_done" /\ paper.abstract = <<>> /\ paper.introduction # <<>>
     /\ appended # <<>>) =>
    /\ GivenData.abstract = <<>>
    /\ data.abstract = <<>>
    /\ ~Contains(md.body, H1_ABSTRACT)
    /\ ~Contains(md.body, H1_ABSTRACT \o NL \o INTRODUCTION_)

\* the body of the section of analysis_result under label: from the line after the
\* label to the blank line before next_label, or to the end when next_label is empty
SectionBody(analysis_result, label, next_label) ==
  LET from == find(analysis_result, label, 1) + Len(label)
      to == IF next_label = <<>> THEN Len(analysis_result)
            ELSE find(analysis_result, next_label, 1) - 1
  IN  strip(SubSeq(analysis_result, from, to))

\* the four labels are there in order, each with a body, with blank lines between
FourNonEmptySections(analysis_result) ==
  /\ FourSectionFormat(analysis_result)
  /\ SectionBody(analysis_result, SUMMARY_, RESEARCH_GAP_) # <<>>
  /\ SectionBody(analysis_result, RESEARCH_GAP_, OBJECTIVES_) # <<>>
  /\ SectionBody(analysis_result, OBJECTIVES_, KEYWORDS_) # <<>>
  /\ SectionBody(analysis_result, KEYWORDS_, <<>>) # <<>>
  /\ \A label \in {RESEARCH_GAP_, OBJECTIVES_, KEYWORDS_} :
       StartsAt(analysis_result, find(analysis_result, label, 1) - 2, NL \o NL)

AnalysisLabels == {SUMMARY_, RESEARCH_GAP_, OBJECTIVES_, KEYWORDS_}

\* C17: for a record whose analysis holds SUMMARY, RESEARCH GAP/PROBLEM, OBJECTIVES
\* and KEYWORDS in this order, each with a body, separated by blank lines,
\* extract_data_from_file returns as summary, gap and objectives the body of the
\* section itself, with no label and no text of another section in it, and as
\* keywords the trimmed tokens of the KEYWORDS body split at the commas.
C17_SectionBoundaries ==
  (txt.exists /\ appended # <<>> /\ FourNonEmptySections(appended[Len(appended)])) =>
    LET given == appended[Len(appended)]
        d == extract_data_from_file(txt.text)
    IN  /\ d.summary = SectionBody(given, SUMMARY_, RESEARCH_GAP_)
        /\ d.gap = SectionBody(given, RESEARCH_GAP_, OBJECTIVES_)
        /\ d.objectives = SectionBody(given, OBJECTIVES_, KEYWORDS_)
        /\ d.keywords = keyword_list(SectionBody(given, KEYWORDS_, <<>>))
        /\ \A v \in {d.summary, d.gap, d.objectives}, label \in AnalysisLabels :
             ~Contains(v, label)

\* AnalysisEmptyGap without its "RESEARCH GAP/PROBLEM:" label:
\* 'SUMMARY:\nS\n\nOBJECTIVES:\nO\n\nKEYWORDS:\ngenes'
AnalysisGapAbsent ==
  <<"S","U","M","M","A","R","Y",":","\n","S","\n","\n","O","B","J","E","C","T","I","V","E","S",":","\n","O","\n","\n","K","E","Y","W","O","R","D","S",":","\n","g","e","n","e","s">>

\* C18: a record whose analysis has the label "RESEARCH GAP/PROBLEM:" with an empty
\* body is handled by stage 3 as the record without that section: the parsed gap is
\* empty, the other parsed values are the same, a markdown file is created in both
\* cases or in neither, and the markdown has no "# RESEARCH GAP/PROBLEM" heading.
C18_EmptyAsAbsent ==
  (pc = "stage3_done" /\ appended # <<>> /\ appended[Len(appended)] = AnalysisEmptyGap) =>
    LET absent == extract_data_from_file(OriginalRecord \o AnalysisHeader \o AnalysisGapAbsent)
    IN  /\ content = OriginalRecord \o AnalysisHeader \o AnalysisEmptyGap
        /\ GivenData.gap = <<>>
        /\ GivenData = absent
        /\ (GivenData.summary = <<>> /\ GivenData.keywords = <<>>)
             <=> (absent.summary = <<>> /\ absent.keywords = <<>>)
        /\ ~Contains(md.body, H1_GAP)
        /\ md.body = markdown_of(absent).body

(***************************************************************************)
(* Claims about the stage-3 runs, under SpecMarkdown                       *)
(***************************************************************************)
\* no markdown file that exists is changed by the step
ExistingMarkdownKeptStep ==
  \A k \in 1..Len(md_files) : md_files[k].exists => md_files'[k] = md_files[k]

\* the loop of process_text_folder passes a file whose markdown file exists
FolderPassesExisting ==
  /\ pc = "folder_loop"
  /\ file_index < Len(txt_files)
  /\ md_files[file_index + 1].exists
  /\ file_index' = file_index + 1

\* the command line is run on a text file whose markdown file exists
SingleFileOnExisting ==
  /\ pc = "main"
  /\ pc' = "file_exited"
  /\ md_files[1].exists
  /\ outcomes' # <<"not_text">>

\* C12: without --overwrite no markdown file that exists is modified by
\* process_text_folder or process_single_text_file, whatever the record holds; in the
\* folder loop the entry is counted as skipped and not as success; with a single
\* file as input the run exits with code 0.
C12_ExistingMarkdownKept ==
  /\ [][~overwrite => ExistingMarkdownKeptStep]_vars
  /\ [][(~overwrite /\ FolderPassesExisting) =>
          /\ skipped_count' = skipped_count + 1
          /\ success_count' = success_count
          /\ outcomes' = Append(outcomes, "skipped")]_vars
  /\ [][(~overwrite /\ SingleFileOnExisting) =>
          /\ exit_code' = <<0>>
          /\ md_files' = md_files]_vars

\* a folder run without --overwrite is over: the first record, which has an analysis,
\* was skipped because its markdown file was there, and that file is as it was; the
\* second record was rendered
C12_Witness ==
  /\ pc = "folder_exited"
  /\ ~overwrite
  /\ Len(txt_files) = 2
  /\ txt_files[1].text = RecordWithAnalysis /\ txt_files[1].readable
  /\ md_files[1] = OldMarkdown
  /\ outcomes = <<"skipped", "created">>
  /\ skipped_count = 1
  /\ success_count = 1
  /\ exit_code = <<0>>

(***************************************************************************)
(* Claims about the stage-1 run on a folder, under SpecFolder              *)
(***************************************************************************)
\* the record process_pdf_with_zotero wrote for the result
RecordOf(result) ==
  record_text(result.title, result.authors, result.year, result.abstract,
              result.introduction)

\* C13: when process_pdf_folder is done with a folder of distinct PDF files, every
\* PDF has a record file of its own that holds its title, authors, year, abstract and
\* introduction: there are as many record files as PDF files, and no record was
\* overwritten by the processing of another PDF.
C13_RecordPerPdf ==
  pc = "pdf_folder_done" =>
    /\ Len(outcomes) = Len(pdf_files)
    /\ Cardinality(DOMAIN record_files) = Len(pdf_files)
    /\ \A k \in 1..Len(outcomes) :
         /\ outcomes[k].output_path \in DOMAIN record_files
         /\ record_files[outcomes[k].output_path] = RecordOf(outcomes[k])
    /\ \A i, j \in 1..Len(outcomes) :
         i # j => outcomes[i].output_path # outcomes[j].output_path

====
